---- MODULE Spec2Model ----
(***************************************************************************)
(* State-machine model of the D365 connector of integration-hub:           *)
(*   - the cursor store            (common/cursors.py)                     *)
(*   - the pollers                 (connectors/d365/ingest.py)             *)
(*   - the paginator               (connectors/d365/paginate.py)           *)
(*   - the request executor        (connectors/d365/client.py)             *)
(*   - the token getters           (connectors/d365/auth.py, common/auth.py)*)
(*   - the table registries        (common/registry.py, metadata.py)       *)
(*   - the submission handlers     (connectors/d365/submit.py, gateway)    *)
(*                                                                         *)
(* Timestamps.  A watermark is a string.  The code compares watermarks in  *)
(* two ways: as strings (latest != stored) and as parsed instants          *)
(* (_max_iso, the server's "modifiedon gt X").  A literal is therefore a   *)
(* record [ts, form]: ts is the instant the string denotes, form tells     *)
(* what kind of string it is ("Z" for a timestamp ...T00:00:00Z, "bad" for *)
(* a string datetime.fromisoformat rejects, "none" for None).              *)
(*                                                                         *)
(* Scheduling.  The pollers are coroutines on one event loop: control      *)
(* changes hands only at an await (get_table, a page request).  pc values  *)
(* "resolve" and "fetch" are the awaits; "row" and "advance" are           *)
(* synchronous continuations during which no other coroutine runs.         *)
(***************************************************************************)
EXTENDS Integers, Sequences, FiniteSets, TLC

\* ---------------------------------------------------------------- bounds
MaxTs == 3            \* instants are 1..MaxTs
MaxRows == 3          \* rows in the remote entity set
PageSize == 2         \* rows per server page (odata.maxpagesize, scaled down)
MaxLimitPages == 1    \* limit_pages is drawn from 0..MaxLimitPages
MaxRecordsBound == 1  \* max_records is drawn from 0..MaxRecordsBound (0: None)

\* ------------------------------------------------------------- literals
None == [ts |-> 0, form |-> "none"]
Bad == [ts |-> 0, form |-> "bad"]
Lit(t) == [ts |-> t, form |-> "Z"]

\* Python truthiness of an Optional[str]
Truthy(l) == l.form # "none"

\* ingest.py _is_iso_z: datetime.fromisoformat(ts.replace("Z", "+00:00")) succeeds
is_iso_z(l) == l.form = "Z"

\* datetime.fromisoformat(a.replace("Z","+00:00")): the instant of a valid literal
Parse(l) == l.ts

\* ingest.py _max_iso / _max_dt raise ValueError on a string that does not parse
max_iso_raises(a, b) == Truthy(a) /\ Truthy(b) /\ (~is_iso_z(a) \/ ~is_iso_z(b))

\* ingest.py _max_iso / _max_dt
max_iso(a, b) ==
    IF ~Truthy(a) THEN b
    ELSE IF ~Truthy(b) THEN a
    ELSE IF Parse(a) >= Parse(b) THEN a ELSE b

\* ------------------------------------------------------------------ keys
Tenants == {"t1"}
Logicals == {"cr83d_sourcingevent"}
EventsResource == "cr83d_sourcingevents"
Resources == Logicals \cup {EventsResource}

\* cursors.py _key
Key(tenant, table) == <<tenant, table>>
\* the store is one document for all tenants: a tenant beside the polled one
OtherTenant == "t2"
StoreTenants == Tenants \cup {OtherTenant}
Keys == {Key(t, r) : t \in StoreTenants, r \in Resources}

\* ---------------------------------------------------------- remote rows
\* A row of the entity set: modifiedon (0: null) and createdon.  createdon is
\* read only when modifiedon is absent; a row that was modified carries the
\* instant of its creation or a later one, and the model fixes it to the same.
Rows == {[mod |-> m, created |-> m] : m \in 1..MaxTs}
        \cup {[mod |-> 0, created |-> MaxTs]}

\* rows as the server orders them under "$orderby modifiedon asc"
IsAscending(s) == \A i \in 1..(Len(s) - 1) : s[i].mod <= s[i + 1].mod

RemoteTables ==
    UNION {{s \in [1..n -> Rows] : IsAscending(s)} : n \in 0..MaxRows}

Procs == {1, 2}

VARIABLES
    remote,     \* the rows of the remote entity set, in server order
    cursors,    \* .runtime/cursors.json : key -> literal (None: key absent)
    rawlog,     \* .runtime/data/<tenant>/<logical>.jsonl : key -> row indices appended
    run,        \* per coroutine: the locals of the poll it is executing
    req,        \* the locals of one call of client._request and what it did
    pg,         \* the locals of one paginate_table / find_tables / d365_get call
    http,       \* the HTTP calls that call has sent, in order
    token_cache,  \* connectors/d365/auth.py _token_cache : scope -> (token, expires_at)
    now,        \* time.time(), in seconds
    tk,         \* per caller: the locals of the token getter it is executing
    idp,        \* the identity provider: requests received, tokens issued, the last one
    cursor_files, \* .runtime/cursors/<tenant>/<stem>.txt : key -> text (None: no file)
    op,         \* the last call of the cursor store and what it returned
    registry,   \* data/registry.json : tenant -> list of logical names
    registered, \* .runtime/cursors.json, key <tenant>:d365_registered_tables : the list
    rg,         \* the last call of a register_tables and what it returned
    disk,       \* the submission archives on the local disk
    sub,        \* the last submission handled and what it did
    rs,         \* the locals of one operation that resolves a table by logical name
    batch,      \* the locals of one poll_generic call of the gateway
    ct,         \* the schema catalog and the locals of one get_table call
    sf,         \* the locals of one upload_zip_via_sftp call
    sftp_dirs,  \* the SFTP server: how many directories of the path exist
    sftp_files, \* the SFTP server: the paths (by depth) that hold a file
    parses,     \* .runtime/cursors.json holds text that json.loads accepts
    zp,         \* the last archive built and what was done with it
    local_files,\* the submission directory: path -> bytes of the file
    hj          \* the locals of one d365_get_json call

\* the poll and request components, and the components beside them
core == <<remote, cursors, rawlog, run, req>>
pagevars == <<pg, http>>
authvars == <<token_cache, now, tk, idp>>
storevars == <<cursor_files, op, parses>>
regvars == <<registry, registered, rg>>
subvars == <<disk, sub>>
resvars == <<rs>>
batchvars == <<batch>>
catvars == <<ct>>
sftpvars == <<sf, sftp_dirs, sftp_files>>
zipvars == <<zp, local_files>>
jsonvars == <<hj>>
last == <<zipvars, jsonvars>>
later == <<resvars, batchvars, catvars, sftpvars, last>>
ext == <<pagevars, authvars, storevars, regvars, subvars, later>>
vars == <<core, ext>>
notpage == <<core, authvars, storevars, regvars, subvars, later>>
notauth == <<core, pagevars, storevars, regvars, subvars, later>>
notstore == <<remote, rawlog, run, req, pagevars, authvars, regvars, subvars, later>>
notreg == <<core, pagevars, authvars, storevars, subvars, later>>
notsub == <<core, pagevars, authvars, storevars, regvars, later>>
earlier == <<pagevars, authvars, storevars, regvars, subvars>>
notres == <<remote, rawlog, run, req, earlier, batchvars, catvars, sftpvars, last>>
notbatch == <<remote, cursors, rawlog, req, earlier, resvars, catvars, sftpvars, last>>
notcat == <<core, earlier, resvars, batchvars, sftpvars, last>>
notsftp == <<core, earlier, resvars, batchvars, catvars, last>>
notzip == <<core, earlier, resvars, batchvars, catvars, sftpvars, jsonvars>>
notjson == <<core, earlier, resvars, batchvars, catvars, sftpvars, zipvars>>

IdleRun ==
    [pc |-> "idle", kind |-> "none", key |-> Key("t1", EventsResource),
     force_full |-> FALSE, since_iso |-> None, limit_pages |-> 0, max_records |-> 0,
     stored |-> None, effective |-> None, filter |-> None,
     processed |-> 0, pages |-> 0, latest |-> None,
     requested |-> 0, buf |-> <<>>, page_bumped |-> FALSE, next_link |-> 0,
     appended |-> 0, error |-> "none"]

\* client.py line 11
RETRIES == 3
\* client.py line 12, in tenths of a second (0.8 s)
BACKOFF_BASE == 8

IdleReq ==
    [pc |-> "idle", attempt |-> 0, last_exc |-> "none",
     history |-> <<>>,     \* what each HTTP attempt of the call met
     sleeps |-> <<>>,      \* the delays slept, in tenths of a second
     outcome |-> "none",   \* "json" | "None" | the exception raised
     status |-> 0,         \* the status the raised HTTPStatusError carries
     body |-> 0]           \* the attempt whose parsed body was returned

\* paginate.py: the generator's locals.  buf holds the rows of the current
\* page not yet yielded, requested the number of the page awaited, next_link
\* the number of the page @odata.nextLink points to (0: the field is absent),
\* yielded the (row, page_bumped) pairs handed to the consumer so far.
IdlePg ==
    [pc |-> "idle", kind |-> "none", filter |-> None,
     requested |-> 0, buf |-> <<>>, page_bumped |-> FALSE, next_link |-> 0,
     yielded |-> <<>>, out |-> 0]

\* ------------------------------------------------------------- tokens
TickLen == 30      \* the clock advances in steps of 30 seconds
MaxTicks == 4      \* and stops after MaxTicks steps
MaxTokens == 3     \* credentials the identity provider issues in one behaviour

Scopes == {"https://org.crm.dynamics.com/.default"}
Callers == {1, 2}

\* a credential: the token (0: none) and the instant it expires
NoCredential == [token |-> 0, expires_at |-> 0]

IdleTk == [pc |-> "idle", fn |-> "none", now |-> 0, cached |-> FALSE,
           held |-> FALSE, ret |-> NoCredential]

\* ------------------------------------------------- stores and submissions
IdleOp == [name |-> "none", tenant |-> "t1", tables |-> {}, before |-> [k \in Keys |-> None],
           ret_count |-> 0, ret_value |-> None, ret_list |-> {}]

IdleRg == [fn |-> "none", tenant |-> "t1", tables |-> <<>>, before |-> <<>>, ret |-> <<>>]

IdleSub == [fn |-> "none", package_id |-> "none", route |-> "none", valid |-> FALSE,
            wrote |-> FALSE, backends |-> {}, result |-> "none"]

\* an operation of the gateway that resolves a logical name: requests are the
\* paths it asked the data API for, cleared the cursor keys it wrote
IdleRs == [pc |-> "idle", fn |-> "none", logicals |-> <<>>, metas |-> <<>>,
           requests |-> <<>>, cleared |-> {}, result |-> "none"]

\* the query string of a poll request as it arrives: force_full "absent",
\* "true" or "false"; limit_pages and max_records 0 when absent
NoQuery == [force_full |-> "absent", limit_pages |-> 0, max_records |-> 0,
            since_iso |-> None]

\* main.py lines 139-144: PollRequest() with the defaults of its fields
\* (max_records 0: None)
DefaultLimitPages == 2
NoBody == [force_full |-> FALSE, limit_pages |-> DefaultLimitPages, max_records |-> 0,
           since_iso |-> None]

\* main.py poll_generic: the query and the body of the request, the merged
\* arguments, the tables of the call, the index of the one being polled, the
\* running total, what each table ended with and the rows each run appended
IdleBatch == [pc |-> "idle", tenant |-> "none", tables |-> <<>>, idx |-> 0,
              query |-> NoQuery, body |-> NoBody,
              force_full |-> FALSE, limit_pages |-> 0, max_records |-> 0,
              since_iso |-> None,
              total |-> 0, ended |-> <<>>, logged |-> <<>>, result |-> "none"]

IdleCt == [pc |-> "idle", logical |-> "none", pages |-> <<>>, requested |-> 0,
           out |-> <<>>,
           result |-> [logical |-> "None", set |-> "None", pk |-> "None",
                       pname |-> "None"]]

IdleSf == [pc |-> "idle", depth |-> 0, part |-> 0, transport |-> "none",
           session |-> "none", exc |-> "none", result |-> "none"]

\* build_submission_zip and save_zip_local: the arguments, the archive
\* built and the descriptor returned
IdleZp == [fn |-> "none", answers |-> <<>>, attachments |-> <<>>,
           archive |-> <<>>, descriptor |-> [scheme |-> "none", path |-> <<>>]]

\* http.py d365_get_json: attempt, the answers its GETs met so far (a
\* status, or 0 for an httpx transport error) and how the call ended
IdleHj == [pc |-> "idle", attempt |-> 0, history |-> <<>>, outcome |-> "none"]

Init ==
    /\ req = IdleReq
    /\ remote \in RemoteTables
    /\ cursors = [k \in Keys |-> None]
    /\ rawlog = [k \in Keys |-> {}]
    /\ run = [p \in Procs |-> IdleRun]
    /\ pg = IdlePg
    /\ http = <<>>
    /\ token_cache = [s \in Scopes |-> NoCredential]
    /\ now = 0
    /\ tk = [c \in Callers |-> IdleTk]
    /\ idp = [posts |-> 0, tokens |-> 0, issued |-> [s \in Scopes |-> NoCredential]]
    /\ cursor_files = [k \in Keys |-> None]
    /\ op = IdleOp
    /\ registry = [t \in Tenants |-> <<>>]
    /\ registered = [t \in Tenants |-> <<>>]
    /\ rg = IdleRg
    /\ disk = {}
    /\ sub = IdleSub
    /\ rs = IdleRs
    /\ batch = IdleBatch
    /\ ct = IdleCt
    /\ sf = IdleSf
    /\ sftp_dirs = 0
    /\ sftp_files = {}
    /\ parses = TRUE
    /\ zp = IdleZp
    /\ local_files = {}
    /\ hj = IdleHj

\* ------------------------------------------------------------ the server
\* The rows a query selects, as indices into remote, in server order:
\* no $filter selects every row; "(modifiedon ne null) and (modifiedon gt X)"
\* selects the rows modified strictly after the instant of X.
Selected(filter, i) ==
    \/ ~Truthy(filter)
    \/ (remote[i].mod # 0 /\ remote[i].mod > Parse(filter))

RECURSIVE QueryFrom(_, _)
QueryFrom(filter, i) ==
    IF i > Len(remote) THEN <<>>
    ELSE IF Selected(filter, i) THEN <<i>> \o QueryFrom(filter, i + 1)
    ELSE QueryFrom(filter, i + 1)

QueryRows(filter) == QueryFrom(filter, 1)

Min(a, b) == IF a <= b THEN a ELSE b

\* the n-th server page of a result, and whether it carries @odata.nextLink
PageOf(rows, n) == SubSeq(rows, (n - 1) * PageSize + 1, Min(n * PageSize, Len(rows)))
HasNextLink(rows, n) == Len(rows) > n * PageSize

\* ------------------------------------------------------- cursor store
\* cursors.py _load (lines 10-16): the parsed document; a text json.loads
\* rejects is answered with the empty dict, the exception swallowed
load(store) == IF parses THEN store ELSE [k \in Keys |-> None]

\* cursors.py get_cursor
get_cursor(store, tenant, table) == load(store)[Key(tenant, table)]

\* a set_cursor that saved a document of the one key
set_cursor_Fresh(store, key, iso_z) == [k \in Keys |-> IF k = key THEN iso_z ELSE None]

\* cursors.py set_cursor: load, assign the key, save
set_cursor(store, key, iso_z) == [load(store) EXCEPT ![key] = iso_z]

\* ------------------------------------------------------------- pollers
\* No other coroutine is inside a synchronous continuation.
LoopFree(p) == \A q \in Procs \ {p} : run[q].pc \notin {"row", "advance"}

\* ingest.py poll_sourcing_events, step 2 (lines 71-77)
EffectiveCursorEvents(force_full, since_iso, stored) ==
    IF force_full THEN None
    ELSE IF Truthy(since_iso) /\ is_iso_z(since_iso) THEN since_iso
    ELSE IF Truthy(stored) /\ is_iso_z(stored) THEN stored
    ELSE None

\* a poll_table that forgets "if not force_full"
EffectiveCursorTable_NoForce(force_full, since_iso, stored) ==
    IF Truthy(since_iso) THEN since_iso ELSE stored

\* ingest.py poll_table, "decide cursor" (lines 168-171): since_iso or stored
EffectiveCursorTable(force_full, since_iso, stored) ==
    IF force_full THEN None
    ELSE IF Truthy(since_iso) THEN since_iso
    ELSE stored

\* params["$filter"] is set only when the effective cursor is truthy
FilterOf(effective) == IF Truthy(effective) THEN effective ELSE None

\* Lines 68-91 of poll_sourcing_events / 167-181 of poll_table: read the stored
\* cursor, decide the effective one, build the query, zero the counters and
\* ask the paginator for the first page.
Begin(r, stored, effective) ==
    [r EXCEPT !.pc = "fetch", !.stored = stored, !.effective = effective,
              !.filter = FilterOf(effective), !.processed = 0, !.pages = 0,
              !.latest = effective, !.requested = 1]

PollSourcingEventsStart(p, tenant, force_full, since_iso, limit_pages, max_records) ==
    /\ run[p].pc = "idle"
    /\ LoopFree(p)
    /\ LET key == Key(tenant, EventsResource)
           stored == get_cursor(cursors, tenant, EventsResource)
           r0 == [IdleRun EXCEPT !.kind = "events", !.key = key,
                                 !.force_full = force_full, !.since_iso = since_iso,
                                 !.limit_pages = limit_pages, !.max_records = max_records]
       IN run' = [run EXCEPT ![p] =
                    Begin(r0, stored, EffectiveCursorEvents(force_full, since_iso, stored))]
    /\ UNCHANGED <<remote, cursors, rawlog, req, ext>>

\* poll_table up to its first await: the call of get_table (line 164)
PollTableStart(p, tenant, logical, force_full, since_iso, limit_pages, max_records) ==
    /\ run[p].pc = "idle"
    /\ LoopFree(p)
    /\ run' = [run EXCEPT ![p] =
                 [IdleRun EXCEPT !.pc = "resolve", !.kind = "table",
                                 !.key = Key(tenant, logical),
                                 !.force_full = force_full, !.since_iso = since_iso,
                                 !.limit_pages = limit_pages, !.max_records = max_records]]
    /\ UNCHANGED <<remote, cursors, rawlog, req, ext>>

\* ------------------------------------------------------ table metadata
\* the schema catalog: logical name -> entity set name
Catalog == [l \in Logicals |-> "cr83d_sourcingevents"]
UnknownLogical == "nosuch"
PollLogicals == Logicals \cup {UnknownLogical}

\* metadata.py get_table: the entry find_tables built (lines 38-43), or the
\* sentinel of line 79
get_table(logical) ==
    IF logical \in DOMAIN Catalog
    THEN [logical |-> logical, set |-> Catalog[logical],
          pk |-> "id", pname |-> "name"]
    ELSE [logical |-> "None", set |-> "None", pk |-> "None", pname |-> "None"]

\* The single-entity resolver poll_table was written against (the comment of
\* line 164: EntityDefinitions(LogicalName='...')): the raw definition.
EntityDefinition(logical) ==
    [LogicalName |-> logical, EntitySetName |-> Catalog[logical],
     PrimaryIdAttribute |-> "id", PrimaryNameAttribute |-> "name"]

\* the records a resolver can hand to poll_table for a logical name
MetaRecords(logical) ==
    {get_table(logical)} \cup
    (IF logical \in DOMAIN Catalog THEN {EntityDefinition(logical)} ELSE {})

\* poll_table lines 164-181: get_table answered with meta.  meta["EntitySetName"]
\* raises KeyError when the record has no such key; otherwise the run reads the
\* stored cursor, decides the effective one and asks for the first page.
ResolveTable(p, meta) ==
    /\ run[p].pc = "resolve"
    /\ LoopFree(p)
    /\ meta \in MetaRecords(run[p].key[2])
    /\ IF "EntitySetName" \in DOMAIN meta
       THEN LET stored == get_cursor(cursors, run[p].key[1], run[p].key[2])
            IN run' = [run EXCEPT ![p] =
                         Begin(run[p], stored,
                               EffectiveCursorTable(run[p].force_full,
                                                    run[p].since_iso, stored))]
       ELSE run' = [run EXCEPT ![p].pc = "failed", ![p].error = "KeyError"]
    /\ UNCHANGED <<remote, cursors, rawlog, req, ext>>

\* get_table itself failed (the catalog request raised)
ResolveFail(p) ==
    /\ run[p].pc = "resolve"
    /\ LoopFree(p)
    /\ run' = [run EXCEPT ![p].pc = "failed", ![p].error = "upstream"]
    /\ UNCHANGED <<remote, cursors, rawlog, req, ext>>

\* ----------------------------------------------------------- paginator
\* Where the consumer goes once the current page is used up: the paginator
\* requests the continuation link if there is one, else the generator ends.
AfterPage(r) ==
    IF r.next_link # 0
    THEN [r EXCEPT !.pc = "fetch", !.requested = r.next_link, !.buf = <<>>]
    ELSE [r EXCEPT !.pc = "advance", !.buf = <<>>]

\* paginate.py lines 19-23 / 26-38: the response of the requested page arrives.
\* The server rejects a filter whose literal is not a timestamp (see FetchPageFail).
FetchPage(p) ==
    /\ run[p].pc = "fetch"
    /\ LoopFree(p)
    /\ ~Truthy(run[p].filter) \/ is_iso_z(run[p].filter)
    /\ LET rows == QueryRows(run[p].filter)
           n == run[p].requested
           r1 == [run[p] EXCEPT !.buf = PageOf(rows, n), !.page_bumped = TRUE,
                                !.next_link = IF HasNextLink(rows, n) THEN n + 1 ELSE 0]
       IN run' = [run EXCEPT ![p] =
                    IF r1.buf # <<>> THEN [r1 EXCEPT !.pc = "row"] ELSE AfterPage(r1)]
    /\ UNCHANGED <<remote, cursors, rawlog, req, ext>>

\* a poller that wrote the newest instant of the whole result on a failure
FetchPageFail_PersistsLast(p) ==
    /\ run[p].pc = "fetch"
    /\ LoopFree(p)
    /\ run' = [run EXCEPT ![p].pc = "failed", ![p].error = "upstream"]
    /\ LET rows == IF ~Truthy(run[p].filter) \/ is_iso_z(run[p].filter)
                   THEN QueryRows(run[p].filter) ELSE <<>>
       IN cursors' = IF rows # <<>>
                     THEN set_cursor(cursors, run[p].key,
                                     Lit(remote[rows[Len(rows)]].created))
                     ELSE cursors
    /\ UNCHANGED <<remote, rawlog, req, ext>>

\* the page request raised: retries exhausted, a non-retryable status (among
\* them the 400 for a malformed filter), or raise_for_status on a continuation
FetchPageFail(p) ==
    /\ run[p].pc = "fetch"
    /\ LoopFree(p)
    /\ run' = [run EXCEPT ![p].pc = "failed", ![p].error = "upstream"]
    /\ UNCHANGED <<remote, cursors, rawlog, req, ext>>

\* ------------------------------------------------------- the row loop
\* a poller that read modifiedon alone
RowMod_ModOnly(row) == Lit(row.mod)

\* row.get("modifiedon") or row.get("createdon")
RowMod(row) == IF row.mod # 0 THEN Lit(row.mod) ELSE Lit(row.created)

\* pages after "if page_bumped: pages += 1"
PagesAfter(r) == IF r.page_bumped THEN r.pages + 1 ELSE r.pages

\* a limit that lets one page more through
PageLimitHit_Late(r) ==
    r.page_bumped /\ r.limit_pages # 0 /\ PagesAfter(r) > r.limit_pages + 1

\* "if limit_pages and pages > limit_pages: break"
PageLimitHit(r) ==
    r.page_bumped /\ r.limit_pages # 0 /\ PagesAfter(r) > r.limit_pages

\* a poller that folded the row it stops at into the running maximum
RowPageLimit_FoldsRow(p) ==
    /\ run[p].pc = "row"
    /\ PageLimitHit(run[p])
    /\ run' = [run EXCEPT ![p].pc = "advance", ![p].pages = PagesAfter(run[p]),
                          ![p].buf = <<>>,
                          ![p].latest = max_iso(run[p].latest,
                                                RowMod(remote[Head(run[p].buf)]))]
    /\ UNCHANGED <<remote, cursors, rawlog, req, ext>>

\* ingest.py lines 92-95 / 182-185: the first row of a page beyond limit_pages
\* ends the loop before the row is touched.
RowPageLimit(p) ==
    /\ run[p].pc = "row"
    /\ PageLimitHit(run[p])
    /\ run' = [run EXCEPT ![p].pc = "advance", ![p].pages = PagesAfter(run[p]),
                          ![p].buf = <<>>]
    /\ UNCHANGED <<remote, cursors, rawlog, req, ext>>

\* ingest.py lines 97-113 / 187-194: one row is consumed.  poll_table appends
\* it to the raw-row log (poll_sourcing_events prints the mapped event), the
\* running maximum is updated, processed is counted and max_records may end
\* the loop.
RowConsume(p) ==
    /\ run[p].pc = "row"
    /\ ~PageLimitHit(run[p])
    /\ LET r == run[p]
           i == Head(r.buf)
           mod == RowMod(remote[i])
           stored_row == r.kind = "table"
           r1 == [r EXCEPT !.pages = PagesAfter(r), !.page_bumped = FALSE,
                           !.buf = Tail(r.buf),
                           !.appended = IF stored_row THEN r.appended + 1 ELSE r.appended]
           r2 == [r1 EXCEPT !.latest = max_iso(r.latest, mod),
                            !.processed = r.processed + 1]
       IN /\ rawlog' = IF stored_row
                       THEN [rawlog EXCEPT ![r.key] = rawlog[r.key] \cup {i}]
                       ELSE rawlog
          /\ run' = [run EXCEPT ![p] =
                IF max_iso_raises(r.latest, mod)
                THEN [r1 EXCEPT !.pc = "failed", !.error = "ValueError"]
                ELSE IF r2.max_records # 0 /\ r2.processed >= r2.max_records
                THEN [r2 EXCEPT !.pc = "advance", !.buf = <<>>]
                ELSE IF r2.buf # <<>> THEN r2
                ELSE AfterPage(r2)]
    /\ UNCHANGED <<remote, cursors, req, ext>>

\* ingest.py lines 115-119 / 196-199: persist the cursor "only if we advanced",
\* then return processed.
AdvanceCursor(p) ==
    /\ run[p].pc = "advance"
    /\ cursors' = IF Truthy(run[p].latest) /\ run[p].latest # run[p].stored
                  THEN set_cursor(cursors, run[p].key, run[p].latest)
                  ELSE cursors
    /\ run' = [run EXCEPT ![p].pc = "done"]
    /\ UNCHANGED <<remote, rawlog, req, ext>>

\* the caller has taken the result (or the exception) of the run
PollReturn(p) ==
    /\ run[p].pc \in {"done", "failed"}
    /\ run' = [run EXCEPT ![p] = IdleRun]
    /\ UNCHANGED <<remote, cursors, rawlog, req, ext>>

\* ------------------------------------------------------ specifications
LimitPages == 0..MaxLimitPages
MaxRecords == 0..MaxRecordsBound
\* since_iso: absent, a string that does not parse, or a Z timestamp
SinceIso == {None, Bad} \cup {Lit(t) : t \in 1..MaxTs}

\* the steps of a run that has started
Step(p) ==
    \/ \E meta \in MetaRecords(run[p].key[2]) : ResolveTable(p, meta)
    \/ ResolveFail(p)
    \/ FetchPage(p)
    \/ FetchPageFail(p)
    \/ RowPageLimit(p)
    \/ RowConsume(p)
    \/ AdvanceCursor(p)
    \/ PollReturn(p)

\* Spec: one worker, polls one after the other, every combination of inputs.
Next ==
    \/ \E t \in Tenants, ff \in BOOLEAN, s \in SinceIso, lp \in LimitPages, mr \in MaxRecords :
          PollSourcingEventsStart(1, t, ff, s, lp, mr)
    \/ \E t \in Tenants, l \in PollLogicals, ff \in BOOLEAN, s \in SinceIso,
          lp \in LimitPages, mr \in MaxRecords :
          PollTableStart(1, t, l, ff, s, lp, mr)
    \/ Step(1)

Spec == Init /\ [][Next]_vars

\* ConcSpec: two poll_table coroutines on the event loop, each a plain
\* incremental run (stored cursor, no force_full, no override).
ConcNext ==
    \/ \E p \in Procs, t \in Tenants, l \in PollLogicals,
          lp \in LimitPages, mr \in MaxRecords :
          PollTableStart(p, t, l, FALSE, None, lp, mr)
    \/ \E p \in Procs : Step(p)

ConcSpec == Init /\ [][ConcNext]_vars

\* IndepSpec: two coroutines on the event loop with different keys: worker 1
\* runs poll_sourcing_events, worker 2 poll_table, each a plain incremental
\* run, interleaved at their awaits
IndepNext ==
    \/ \E t \in Tenants, lp \in LimitPages, mr \in MaxRecords :
          PollSourcingEventsStart(1, t, FALSE, None, lp, mr)
    \/ \E t \in Tenants, l \in Logicals, lp \in LimitPages, mr \in MaxRecords :
          PollTableStart(2, t, l, FALSE, None, lp, mr)
    \/ \E p \in Procs : Step(p)

IndepSpec == Init /\ [][IndepNext]_vars

\* NoOverrideSpec: one worker, poll_table runs that never pass since_iso.
NoOverrideNext ==
    \/ \E t \in Tenants, l \in PollLogicals, ff \in BOOLEAN,
          lp \in LimitPages, mr \in MaxRecords :
          PollTableStart(1, t, l, ff, None, lp, mr)
    \/ Step(1)

NoOverrideSpec == Init /\ [][NoOverrideNext]_vars

\* ----------------------------------------------------- request executor
\* the statuses the server answers with: success, a non-transient error,
\* throttling, a transient gateway error
Statuses == {200, 404, 429, 503}

\* an executor that also retries a not-found
RetryStatuses_With404 == {404, 429, 502, 503, 504}

\* client.py line 62
RetryStatuses == {429, 502, 503, 504}

\* the Retry-After header of a response: absent, seconds, or an HTTP-date
RetryAfterHeaders == {"absent", "0", "2", "http-date"}

\* float(ra), in tenths of a second
RetryAfterTenths(ra) == IF ra = "2" THEN 20 ELSE 0

\* float(ra) raises ValueError on a header that is not a number
FloatRaises(ra) == ra = "http-date"

RECURSIVE Pow2(_)
Pow2(n) == IF n = 0 THEN 1 ELSE 2 * Pow2(n - 1)

\* BACKOFF_BASE * (2 ** (attempt - 1))
Backoff(attempt) == BACKOFF_BASE * Pow2(attempt - 1)

\* an executor that never reads the Retry-After header
RetryDelay_Computed(ra, attempt) == Backoff(attempt)

\* client.py lines 64-65: delay = float(ra) if ra else the computed backoff
RetryDelay(ra, attempt) ==
    IF ra # "absent" THEN RetryAfterTenths(ra) ELSE Backoff(attempt)

\* the transport errors the except clause of line 74 catches, and one it does not
CaughtErrors == {"ReadTimeout", "ConnectTimeout", "RemoteProtocolError"}
TransportErrors == CaughtErrors \cup {"ConnectError"}

\* client.py line 33: the call starts by awaiting a token
RequestStart ==
    /\ req.pc = "idle"
    /\ req' = [IdleReq EXCEPT !.pc = "token"]
    /\ UNCHANGED <<remote, cursors, rawlog, run, ext>>

\* client.py lines 33-55: the token arrived; headers are built, last_exc is
\* None and the loop starts its first attempt
TokenOk ==
    /\ req.pc = "token"
    /\ req' = [req EXCEPT !.pc = "send", !.attempt = 1, !.last_exc = "none"]
    /\ UNCHANGED <<remote, cursors, rawlog, run, ext>>

\* common/auth.py line 25: raise_for_status of the token request propagates
TokenFail ==
    /\ req.pc = "token"
    /\ req' = [req EXCEPT !.pc = "raised", !.outcome = "AuthError"]
    /\ UNCHANGED <<remote, cursors, rawlog, run, ext>>

\* client.py lines 57-60: the attempt got a status below 400
RespondOk(status) ==
    /\ req.pc = "send"
    /\ status < 400
    /\ req' = [req EXCEPT !.pc = "returned", !.outcome = "json",
                          !.body = req.attempt,
                          !.history = Append(@, [status |-> status, ra |-> "absent",
                                                 exc |-> "none"])]
    /\ UNCHANGED <<remote, cursors, rawlog, run, ext>>

\* client.py lines 62-67: a throttling or transient status; sleep, then continue
RespondRetry(status, ra) ==
    /\ req.pc = "send"
    /\ status >= 400 /\ status \in RetryStatuses
    /\ LET h == Append(req.history, [status |-> status, ra |-> ra, exc |-> "none"])
       IN req' = IF ra # "absent" /\ FloatRaises(ra)
                 THEN [req EXCEPT !.pc = "raised", !.outcome = "ValueError",
                                  !.history = h]
                 ELSE [req EXCEPT !.pc = "sleep", !.history = h,
                                  !.sleeps = Append(@, RetryDelay(ra, req.attempt))]
    /\ UNCHANGED <<remote, cursors, rawlog, run, ext>>

\* client.py lines 69-73: any other status of 400 or more raises at once; the
\* except clause of line 74 does not catch HTTPStatusError
RespondError(status) ==
    /\ req.pc = "send"
    /\ status >= 400 /\ status \notin RetryStatuses
    /\ req' = [req EXCEPT !.pc = "raised", !.outcome = "HTTPStatusError",
                          !.status = status,
                          !.history = Append(@, [status |-> status, ra |-> "absent",
                                                 exc |-> "none"])]
    /\ UNCHANGED <<remote, cursors, rawlog, run, ext>>

\* client.py lines 74-80: the attempt raised in the transport.  A caught error
\* is remembered and retried after the backoff while attempts remain, else
\* re-raised; an error the clause does not name propagates.
TransportError(e) ==
    /\ req.pc = "send"
    /\ LET h == Append(req.history, [status |-> 0, ra |-> "absent", exc |-> e])
       IN req' = IF e \notin CaughtErrors
                 THEN [req EXCEPT !.pc = "raised", !.outcome = e, !.history = h]
                 ELSE IF req.attempt < RETRIES
                 THEN [req EXCEPT !.pc = "sleep", !.last_exc = e, !.history = h,
                                  !.sleeps = Append(@, Backoff(req.attempt))]
                 ELSE [req EXCEPT !.pc = "raised", !.last_exc = e, !.outcome = e,
                                  !.history = h]
    /\ UNCHANGED <<remote, cursors, rawlog, run, ext>>

\* a loop that allows one attempt more than RETRIES
Wake_OneMore ==
    /\ req.pc = "sleep"
    /\ req' = IF req.attempt < RETRIES + 1
              THEN [req EXCEPT !.pc = "send", !.attempt = @ + 1]
              ELSE IF req.last_exc # "none"
              THEN [req EXCEPT !.pc = "raised", !.outcome = req.last_exc]
              ELSE [req EXCEPT !.pc = "returned", !.outcome = "None"]
    /\ UNCHANGED <<remote, cursors, rawlog, run, ext>>

\* client.py lines 55, 67, 79, 81-83: the sleep is over and the loop continues:
\* the next attempt, or past the last one the code after the loop, which
\* re-raises a remembered transport error and otherwise falls off the end of
\* the function.
Wake ==
    /\ req.pc = "sleep"
    /\ req' = IF req.attempt < RETRIES
              THEN [req EXCEPT !.pc = "send", !.attempt = @ + 1]
              ELSE IF req.last_exc # "none"
              THEN [req EXCEPT !.pc = "raised", !.outcome = req.last_exc]
              ELSE [req EXCEPT !.pc = "returned", !.outcome = "None"]
    /\ UNCHANGED <<remote, cursors, rawlog, run, ext>>

\* the caller has taken the result
RequestEnd ==
    /\ req.pc \in {"returned", "raised"}
    /\ req' = IdleReq
    /\ UNCHANGED <<remote, cursors, rawlog, run, ext>>

\* ReqSpec: one call of _request after the other against any server
ReqNext ==
    \/ RequestStart
    \/ TokenOk
    \/ TokenFail
    \/ \E st \in Statuses : RespondOk(st)
    \/ \E st \in Statuses, ra \in RetryAfterHeaders : RespondRetry(st, ra)
    \/ \E st \in Statuses : RespondError(st)
    \/ \E e \in TransportErrors : TransportError(e)
    \/ Wake
    \/ RequestEnd

ReqSpec == Init /\ [][ReqNext]_vars

\* ReqFairSpec: the same calls, with every await of the call completing: the
\* token request and each HTTP attempt run under a timeout (client.py line
\* 10, line 48) and every sleep is finite.  The remote table plays no part in
\* the executor and is left empty.
ReqInit == Init /\ remote = <<>>
ReqFairSpec == ReqInit /\ [][ReqNext]_vars /\ WF_vars(ReqNext)

\* ------------------------------------------------------ outgoing calls
\* Query parameters are the set of their names; None and {} both send no
\* query string.  The pollers pass $orderby, and $filter when there is a cursor
\* (ingest.py lines 80-84, 173-175).
QueryParams(filter) ==
    IF Truthy(filter) THEN {"$orderby", "$filter"} ELSE {"$orderby"}
ParamSets == {{}, {"$orderby"}, {"$orderby", "$filter"}}

\* an executor that attaches the caller's params to whatever URL it is given
effective_params_Attached(is_abs, params) == params

\* client.py line 40: effective_params = None if is_abs else (params or {})
effective_params(is_abs, params) == IF is_abs THEN {} ELSE params

\* client.py lines 33-57: the HTTP call _request sends.  passed is what the
\* caller handed in, params what goes out, bearer whether the Authorization
\* header carries the token.
request(is_abs, params) ==
    [url_abs |-> is_abs, passed |-> params,
     params |-> effective_params(is_abs, params), bearer |-> TRUE, by |-> "_request"]

\* client.py lines 85-96: d365_get drops params for an absolute link, then
\* calls _request
d365_get(is_abs, params) ==
    [request(is_abs, IF is_abs THEN {} ELSE params) EXCEPT !.passed = params]

\* paginate.py lines 29-31: cli.get(next_link, headers={"Accept": ...}) on a
\* client of its own
ContinuationGet ==
    [url_abs |-> TRUE, passed |-> {}, params |-> {}, bearer |-> FALSE, by |-> "httpx"]

\* ---------------------------------------------------------- paginator
PgFilters == {None} \cup {Lit(t) : t \in 1..MaxTs}

\* paginate.py lines 16-20: the first page is requested through d365_get
PaginateStart(filter) ==
    /\ pg.pc = "idle"
    /\ pg' = [IdlePg EXCEPT !.pc = "page", !.kind = "paginate", !.filter = filter,
                            !.requested = 1]
    /\ http' = <<d365_get(FALSE, QueryParams(filter))>>
    /\ UNCHANGED notpage

\* paginate.py lines 26-27, 38: the page is used up; while there is a
\* continuation link the generator requests it, else it ends
\* a paginator that asks for one page more after a page that held rows
PgAfterPage_OneMore(g) ==
    IF g.next_link # 0 \/ Len(g.yielded) > (g.requested - 1) * PageSize
    THEN [g EXCEPT !.pc = "page", !.requested = g.requested + 1, !.buf = <<>>]
    ELSE [g EXCEPT !.pc = "done", !.buf = <<>>]

PgAfterPage(g) ==
    IF g.next_link # 0
    THEN [g EXCEPT !.pc = "page", !.requested = g.next_link, !.buf = <<>>]
    ELSE [g EXCEPT !.pc = "done", !.buf = <<>>]

\* the calls sent once the generator's locals have become g
PgCalls(g) == IF g.pc = "page" THEN Append(http, ContinuationGet) ELSE http

\* paginate.py lines 20-21 / 31-34: the response of the awaited page arrives
PageArrive ==
    /\ pg.pc = "page" /\ pg.kind = "paginate"
    /\ LET rows == QueryRows(pg.filter)
           n == pg.requested
           g == [pg EXCEPT !.buf = PageOf(rows, n), !.page_bumped = TRUE,
                           !.next_link = IF HasNextLink(rows, n) THEN n + 1 ELSE 0]
           g1 == IF g.buf # <<>> THEN [g EXCEPT !.pc = "yield"] ELSE PgAfterPage(g)
       IN pg' = g1 /\ http' = PgCalls(g1)
    /\ UNCHANGED notpage

\* d365_get raised, or raise_for_status of line 32 did
\* a paginator whose failure takes back what it had yielded
PageFail_Rollback ==
    /\ pg.pc = "page"
    /\ pg' = [pg EXCEPT !.pc = "raised", !.yielded = <<>>]
    /\ UNCHANGED <<notpage, http>>

PageFail ==
    /\ pg.pc = "page"
    /\ pg' = [pg EXCEPT !.pc = "raised"]
    /\ UNCHANGED <<notpage, http>>

\* a generator that never clears page_bumped
YieldItem_FlagKept ==
    /\ pg.pc = "yield"
    /\ LET g == [pg EXCEPT !.yielded = Append(@, <<Head(pg.buf), pg.page_bumped>>),
                           !.buf = Tail(pg.buf)]
           g1 == IF g.buf # <<>> THEN g ELSE PgAfterPage(g)
       IN pg' = g1 /\ http' = PgCalls(g1)
    /\ UNCHANGED notpage

\* paginate.py lines 22-24 / 35-37: yield item, page_bumped; page_bumped = False
YieldItem ==
    /\ pg.pc = "yield"
    /\ LET g == [pg EXCEPT !.yielded = Append(@, <<Head(pg.buf), pg.page_bumped>>),
                           !.page_bumped = FALSE, !.buf = Tail(pg.buf)]
           g1 == IF g.buf # <<>> THEN g ELSE PgAfterPage(g)
       IN pg' = g1 /\ http' = PgCalls(g1)
    /\ UNCHANGED notpage

\* ------------------------------------------------------- catalog scan
MaxCatalogPages == 2   \* pages of /EntityDefinitions the server may serve

\* metadata.py lines 23-29: path = "/EntityDefinitions", params = None
FindTablesStart ==
    /\ pg.pc = "idle"
    /\ pg' = [IdlePg EXCEPT !.pc = "page", !.kind = "find_tables", !.requested = 1]
    /\ http' = <<d365_get(FALSE, {})>>
    /\ UNCHANGED notpage

\* metadata.py lines 29-50: a page of the catalog arrives; with a nextLink
\* the loop calls d365_get(next_link, params=None), without one it returns
CatalogArrive(has_next) ==
    /\ pg.pc = "page" /\ pg.kind = "find_tables"
    /\ has_next => pg.requested < MaxCatalogPages
    /\ IF has_next
       THEN /\ pg' = [pg EXCEPT !.requested = @ + 1, !.out = @ + 1]
            /\ http' = Append(http, d365_get(TRUE, {}))
       ELSE /\ pg' = [pg EXCEPT !.pc = "done", !.out = @ + 1]
            /\ http' = http
    /\ UNCHANGED notpage

\* ---------------------------------------------------- single requests
\* a caller of d365_get, with a path or an absolute link and any params
D365Get(is_abs, params) ==
    /\ pg.pc = "idle"
    /\ pg' = [IdlePg EXCEPT !.pc = "call", !.kind = "d365_get"]
    /\ http' = <<d365_get(is_abs, params)>>
    /\ UNCHANGED notpage

\* a caller of _request (d365_post passes a path and no params)
Request(is_abs, params) ==
    /\ pg.pc = "idle"
    /\ pg' = [IdlePg EXCEPT !.pc = "call", !.kind = "_request"]
    /\ http' = <<request(is_abs, params)>>
    /\ UNCHANGED notpage

\* the response of the single request
CallReturn ==
    /\ pg.pc = "call"
    /\ pg' = [pg EXCEPT !.pc = "done"]
    /\ UNCHANGED <<notpage, http>>

\* the caller has taken the result (or the exception)
PgEnd ==
    /\ pg.pc \in {"done", "raised"}
    /\ pg' = IdlePg
    /\ http' = <<>>
    /\ UNCHANGED notpage

\* PageSpec: one paginated query, catalog scan or single request after the
\* other against any remote table
PageNext ==
    \/ \E f \in PgFilters : PaginateStart(f)
    \/ PageArrive
    \/ PageFail
    \/ YieldItem
    \/ FindTablesStart
    \/ \E b \in BOOLEAN : CatalogArrive(b)
    \/ \E a \in BOOLEAN, ps \in ParamSets : D365Get(a, ps)
    \/ \E a \in BOOLEAN, ps \in ParamSets : Request(a, ps)
    \/ CallReturn
    \/ PgEnd

PageSpec == Init /\ [][PageNext]_vars

\* PageFairSpec: the same, with the event loop running whatever is pending:
\* a response or an error arrives for every awaited request and the consumer
\* keeps iterating
PageFairSpec == Init /\ [][PageNext]_vars /\ WF_vars(PageNext)

\* StreamSpec: paginate_table under a consumer that takes every item, and
\* under poll_table, one after the other on the same remote table
StreamNext ==
    \/ pg.pc = "idle" /\ NoOverrideNext
    \/ /\ run[1].pc = "idle"
       /\ \/ \E f \in PgFilters : PaginateStart(f)
          \/ PageArrive
          \/ PageFail
          \/ YieldItem
          \/ PgEnd

StreamSpec == Init /\ [][StreamNext]_vars


\* ------------------------------------------------------ token getters
\* connectors/d365/auth.py line 20: 60 s of slack
SLACK == 60
\* the expires_in of a token response, in seconds; 3600 when the field is
\* absent (auth.py line 36)
ExpiresIn == {30, 90, 3600}

TheScope == CHOOSE s \in Scopes : TRUE

\* a cache test without the slack
CacheHit_NoSlack(tok, t) == tok.token # 0 /\ tok.expires_at > t

\* auth.py line 20: if tok and tok[1] - 60 > now
CacheHit(tok, t) == tok.token # 0 /\ tok.expires_at - SLACK > t

\* the identity provider receives a token request
Posted(i) == [i EXCEPT !.posts = @ + 1]

\* connectors/d365/auth.py lines 15-32: look the scope up in the cache; return
\* the cached token, or post the client-credentials request
GetAccessTokenStart(c) ==
    /\ tk[c].pc = "idle"
    /\ LET tok == token_cache[TheScope]
           t == [IdleTk EXCEPT !.fn = "get_access_token", !.now = now,
                               !.held = CacheHit(idp.issued[TheScope], now)]
       IN IF CacheHit(tok, now)
          THEN /\ tk' = [tk EXCEPT ![c] = [t EXCEPT !.pc = "returned",
                                                    !.cached = TRUE, !.ret = tok]]
               /\ idp' = idp
          ELSE /\ idp.posts < MaxTokens
               /\ tk' = [tk EXCEPT ![c] = [t EXCEPT !.pc = "post"]]
               /\ idp' = Posted(idp)
    /\ UNCHANGED <<notauth, token_cache, now>>

\* common/auth.py lines 12-24: build the request and post it; nothing is
\* looked up first
GetDataverseTokenStart(c) ==
    /\ tk[c].pc = "idle"
    /\ idp.posts < MaxTokens
    /\ tk' = [tk EXCEPT ![c] =
                [IdleTk EXCEPT !.pc = "post", !.fn = "get_dataverse_token",
                               !.now = now,
                               !.held = CacheHit(idp.issued[TheScope], now)]]
    /\ idp' = Posted(idp)
    /\ UNCHANGED <<notauth, token_cache, now>>

\* The provider answers with a new token that lives expires_in seconds from
\* now.  auth.py lines 33-38 store (access_token, now + expires_in) with the
\* now read at line 19 and return the token; common/auth.py lines 25-27 return
\* the token and store nothing.
TokenResponse(c, expires_in) ==
    /\ tk[c].pc = "post"
    /\ LET token == idp.tokens + 1
           entry == [token |-> token, expires_at |-> tk[c].now + expires_in]
       IN /\ idp' = [idp EXCEPT !.tokens = token, !.issued[TheScope] =
                        [token |-> token, expires_at |-> now + expires_in]]
          /\ token_cache' = IF tk[c].fn = "get_access_token"
                            THEN [token_cache EXCEPT ![TheScope] = entry]
                            ELSE token_cache
          /\ tk' = [tk EXCEPT ![c].pc = "returned", ![c].ret = entry]
    /\ UNCHANGED <<notauth, now>>

\* raise_for_status (auth.py line 33, common/auth.py line 25) or the transport
TokenReject(c) ==
    /\ tk[c].pc = "post"
    /\ tk' = [tk EXCEPT ![c].pc = "raised"]
    /\ UNCHANGED <<notauth, token_cache, now, idp>>

\* the caller has taken the token (or the exception)
TokenEnd(c) ==
    /\ tk[c].pc \in {"returned", "raised"}
    /\ tk' = [tk EXCEPT ![c] = IdleTk]
    /\ UNCHANGED <<notauth, token_cache, now, idp>>

\* time passes
Tick ==
    /\ now < MaxTicks * TickLen
    /\ now' = now + TickLen
    /\ UNCHANGED <<notauth, token_cache, tk, idp>>

\* AuthSpec: callers of the two token getters on one event loop, the clock
\* and the identity provider
AuthNext ==
    \/ \E c \in Callers : GetAccessTokenStart(c)
    \/ \E c \in Callers : GetDataverseTokenStart(c)
    \/ \E c \in Callers, e \in ExpiresIn : TokenResponse(c, e)
    \/ \E c \in Callers : TokenReject(c)
    \/ \E c \in Callers : TokenEnd(c)
    \/ Tick

AuthInit == Init /\ remote = <<>>
AuthSpec == AuthInit /\ [][AuthNext]_vars

\* ------------------------------------------------- cursor store calls
\* the values a caller stores: a timestamp, or None (gateway main.py line 426)
StoredValues == {None} \cup {Lit(t) : t \in 1..MaxTs}

\* cursors.py lines 33-39: the stem and text of each *.txt file of the
\* tenant's directory
list_cursors(files, tenant) ==
    {<<k[2], files[k]>> : k \in {j \in Keys : j[1] = tenant /\ Truthy(files[j])}}

\* cursors.py lines 46-47: the files reset_cursors unlinks; "not tables" holds
\* for None and for the empty list
reset_targets(files, tenant, tables) ==
    {k \in Keys : /\ k[1] = tenant /\ Truthy(files[k])
                  /\ (tables = {} \/ k[2] \in tables)}

\* cursors.py lines 28-31
SetCursor(tenant, table, iso_z) ==
    /\ cursors' = set_cursor(cursors, Key(tenant, table), iso_z)
    /\ op' = [IdleOp EXCEPT !.name = "set", !.tenant = tenant, !.tables = {table},
                            !.before = cursors]
    /\ parses' = TRUE
    /\ UNCHANGED <<notstore, cursor_files>>

\* cursors.py lines 24-26
GetCursor(tenant, table) ==
    /\ op' = [IdleOp EXCEPT !.name = "get", !.tenant = tenant, !.tables = {table},
                            !.before = cursors,
                            !.ret_value = get_cursor(cursors, tenant, table)]
    /\ UNCHANGED <<notstore, cursors, cursor_files, parses>>

\* cursors.py lines 33-39
ListCursors(tenant) ==
    /\ op' = [IdleOp EXCEPT !.name = "list", !.tenant = tenant, !.before = cursors,
                            !.ret_list = list_cursors(cursor_files, tenant)]
    /\ UNCHANGED <<notstore, cursors, cursor_files, parses>>

\* cursors.py lines 41-53: unlink the files of the tenant's directory that
\* are selected and count them; .runtime/cursors.json is not opened
ResetCursors(tenant, tables) ==
    /\ LET gone == reset_targets(cursor_files, tenant, tables)
       IN /\ cursor_files' = [k \in Keys |-> IF k \in gone THEN None ELSE cursor_files[k]]
          /\ op' = [IdleOp EXCEPT !.name = "reset", !.tenant = tenant, !.tables = tables,
                                  !.before = cursors,
                                  !.ret_count = Cardinality(gone)]
    /\ UNCHANGED <<notstore, cursors, parses>>

\* StoreSpec: any sequence of calls of the four operations of common/cursors.py
StoreNext ==
    \/ \E t \in Tenants, r \in Resources, v \in StoredValues : SetCursor(t, r, v)
    \/ \E t \in Tenants, r \in Resources : GetCursor(t, r)
    \/ \E t \in Tenants : ListCursors(t)
    \/ \E t \in Tenants, ts \in SUBSET Resources : ResetCursors(t, ts)

StoreInit == Init /\ remote = <<>>
StoreSpec == StoreInit /\ [][StoreNext]_vars

\* cursors.py lines 18-22: _save is one write_text of the whole document. A
\* process stopped inside it leaves a text that json.loads rejects; the
\* entries written so far are still in the text
InterruptedSave ==
    /\ parses
    /\ \E k \in Keys : cursors[k] # None
    /\ parses' = FALSE
    /\ op' = [IdleOp EXCEPT !.name = "interrupted", !.before = cursors]
    /\ UNCHANGED <<notstore, cursors, cursor_files>>

\* DocSpec: calls of set_cursor and get_cursor for the keys of two tenants
\* on a document that a stopped save may have left unparseable
DocNext ==
    \/ \E t \in StoreTenants, r \in Resources, v \in StoredValues : SetCursor(t, r, v)
    \/ \E t \in StoreTenants, r \in Resources : GetCursor(t, r)
    \/ InterruptedSave

DocSpec == StoreInit /\ [][DocNext]_vars

\* ------------------------------------------------------ table registry
MaxNames == 2      \* names in one register_tables call

\* logical table names (non-empty strings) and their order as strings
TableNames == {"account", "contact", "task"}
NameRank(n) == CASE n = "account" -> 1 [] n = "contact" -> 2 [] n = "task" -> 3

NameLists == UNION {[1..n -> TableNames] : n \in 0..MaxNames}

\* set(xs)
Range(xs) == {xs[i] : i \in 1..Len(xs)}

\* sorted(S): the ascending list of the names of a set
RECURSIVE sorted(_)
sorted(S) ==
    IF S = {} THEN <<>>
    ELSE LET m == CHOOSE x \in S : \A y \in S : NameRank(x) <= NameRank(y)
         IN <<m>> \o sorted(S \ {m})

\* common/registry.py lines 44-53: add the names to the tenant's existing
\* ones, store the sorted list and return it
RegistryRegisterTables(tenant_id, tables) ==
    /\ LET existing == Range(registry[tenant_id]) \cup Range(tables)
       IN /\ registry' = [registry EXCEPT ![tenant_id] = sorted(existing)]
          /\ rg' = [fn |-> "registry", tenant |-> tenant_id, tables |-> tables,
                    before |-> registry[tenant_id], ret |-> sorted(existing)]
    /\ UNCHANGED <<notreg, registered>>

\* connectors/d365/metadata.py lines 133-139: uniq = sorted(set(tables)) is
\* stored under _REG_KEY in place of what was there, and returned
MetadataRegisterTables(tenant_id, tables) ==
    /\ LET uniq == sorted(Range(tables))
       IN /\ registered' = [registered EXCEPT ![tenant_id] = uniq]
          /\ rg' = [fn |-> "metadata", tenant |-> tenant_id, tables |-> tables,
                    before |-> registered[tenant_id], ret |-> uniq]
    /\ UNCHANGED <<notreg, registry>>

\* RegSpec: any sequence of calls of the two register_tables
RegNext ==
    \/ \E t \in Tenants, ns \in NameLists : RegistryRegisterTables(t, ns)
    \/ \E t \in Tenants, ns \in NameLists : MetadataRegisterTables(t, ns)

RegInit == Init /\ remote = <<>>
RegSpec == RegInit /\ [][RegNext]_vars

\* --------------------------------------------------------- submissions
\* the route of a request: the ones the two handlers name, and one neither does
Routes == {"local", "dryrun", "email", "sftp", "ftp"}
Packages == {"pk-1", "pk-2"}

\* files.py save_zip_local / main.py _write_submission_zip: both write
\* <base>/<tenant>/submission_<id>.zip
ArchivePath(tenant_id, package_id) == <<tenant_id, package_id>>

\* connectors/d365/submit.py export_submission.  valid: validate_submission
\* found no error; delivered: the SMTP or SFTP session went through.
ExportSubmission(tenant_id, package_id, route, valid, delivered) ==
    /\ LET s0 == [IdleSub EXCEPT !.fn = "export_submission", !.package_id = package_id,
                                 !.route = route, !.valid = valid]
       IN IF ~valid
          THEN \* lines 22-24
               /\ sub' = [s0 EXCEPT !.result = "errors"]
               /\ disk' = disk
          ELSE IF route = "email"
          THEN \* lines 31-36
               /\ sub' = [s0 EXCEPT !.backends = {"smtp"},
                                    !.result = IF delivered THEN "ok" ELSE "raised"]
               /\ disk' = disk
          ELSE IF route = "sftp"
          THEN \* lines 37-43
               /\ sub' = [s0 EXCEPT !.backends = {"sftp"},
                                    !.result = IF delivered THEN "ok" ELSE "raised"]
               /\ disk' = disk
          ELSE \* lines 44-46: every other route is the local save
               /\ sub' = [s0 EXCEPT !.wrote = TRUE, !.result = "ok"]
               /\ disk' = disk \cup {ArchivePath(tenant_id, package_id)}
    /\ UNCHANGED notsub

\* apps/gateway/main.py submit_pack (lines 240-260): validate, write the
\* archive, then look at the route; email and sftp are stubs that connect to
\* nothing
SubmitPack(tenant_id, package_id, route, valid) ==
    /\ LET s0 == [IdleSub EXCEPT !.fn = "submit_pack", !.package_id = package_id,
                                 !.route = route, !.valid = valid]
       IN IF ~valid
          THEN /\ sub' = [s0 EXCEPT !.result = "validation_failed"]
               /\ disk' = disk
          ELSE /\ sub' = [s0 EXCEPT !.wrote = TRUE,
                                    !.result = IF route \in {"dryrun", "email", "sftp"}
                                               THEN "ok" ELSE "HTTP400"]
               /\ disk' = disk \cup {ArchivePath(tenant_id, package_id)}
    /\ UNCHANGED notsub

\* SubSpec: any sequence of submissions through the two handlers
SubNext ==
    \/ \E t \in Tenants, k \in Packages, r \in Routes, v \in BOOLEAN, d \in BOOLEAN :
          ExportSubmission(t, k, r, v, d)
    \/ \E t \in Tenants, k \in Packages, r \in Routes, v \in BOOLEAN :
          SubmitPack(t, k, r, v)

SubInit == Init /\ remote = <<>>
SubSpec == SubInit /\ [][SubNext]_vars

\* ------------------------------------- operations that resolve a table
\* the lists of logical names a caller passes to the cursor reset route
MaxResetTables == 2
ResetLists == UNION {[1..n -> PollLogicals] : n \in 0..MaxResetTables}

\* the record has an entity-set name: meta.get("set") is truthy
HasSet(meta) == meta.set # "None"

\* metadata.py lines 92-97: with a page token the rows are fetched from the
\* link and nothing is resolved; lines 99-100: else get_table is awaited
ReadRowsStart(logical, page_token) ==
    /\ rs.pc = "idle" /\ run[1].pc = "idle"
    /\ rs' = IF page_token
             THEN [IdleRs EXCEPT !.pc = "data", !.fn = "read_table_rows_generic",
                                 !.requests = <<"nextLink">>]
             ELSE [IdleRs EXCEPT !.pc = "resolve", !.fn = "read_table_rows_generic",
                                 !.logicals = <<logical>>]
    /\ UNCHANGED <<notres, cursors>>

\* main.py line 332: export_table awaits get_table
ExportTableStart(logical) ==
    /\ rs.pc = "idle" /\ run[1].pc = "idle"
    /\ rs' = [IdleRs EXCEPT !.pc = "resolve", !.fn = "export_table",
                            !.logicals = <<logical>>]
    /\ UNCHANGED <<notres, cursors>>

\* main.py lines 411-418: logicals = body.tables or register_tables(tenant).
\* Without tables the call of register_tables lacks its second argument and
\* raises TypeError; with tables the loop awaits get_table for the first one.
ResetRouteStart(tables) ==
    /\ rs.pc = "idle" /\ run[1].pc = "idle"
    /\ rs' = IF tables = <<>>
             THEN [IdleRs EXCEPT !.pc = "done", !.fn = "reset_cursors_route",
                                 !.result = "TypeError"]
             ELSE [IdleRs EXCEPT !.pc = "resolve", !.fn = "reset_cursors_route",
                                 !.logicals = tables]
    /\ UNCHANGED <<notres, cursors>>

\* get_table answered for the logical name the operation is waiting for.
RsResolved(tenant) ==
    /\ rs.pc = "resolve"
    /\ LET meta == get_table(rs.logicals[Len(rs.metas) + 1])
           r1 == [rs EXCEPT !.metas = Append(@, meta)]
       IN CASE rs.fn = "read_table_rows_generic" ->
                 \* metadata.py lines 101-109: the select list, then
                 \* d365_get(f"/{meta['set']}", params) with no test of the record
                 /\ rs' = [r1 EXCEPT !.pc = "data", !.requests = <<meta.set>>]
                 /\ cursors' = cursors
            [] rs.fn = "export_table" ->
                 \* main.py lines 333-341
                 /\ rs' = IF HasSet(meta)
                          THEN [r1 EXCEPT !.pc = "data", !.requests = <<meta.set>>]
                          ELSE [r1 EXCEPT !.pc = "done", !.result = "HTTP404"]
                 /\ cursors' = cursors
            [] rs.fn = "reset_cursors_route" ->
                 \* main.py lines 416-429: every name is resolved before the
                 \* first cursor is cleared with set_cursor(tenant, set_name, None)
                 IF ~HasSet(meta)
                 THEN /\ rs' = [r1 EXCEPT !.pc = "done", !.result = "HTTP400"]
                      /\ cursors' = cursors
                 ELSE IF Len(r1.metas) < Len(rs.logicals)
                 THEN /\ rs' = r1
                      /\ cursors' = cursors
                 ELSE LET keys == {Key(tenant, r1.metas[i].set) : i \in 1..Len(r1.metas)}
                      IN /\ rs' = [r1 EXCEPT !.pc = "done", !.cleared = keys,
                                             !.result = "ok"]
                         /\ cursors' = [k \in Keys |-> IF k \in keys THEN None
                                                       ELSE cursors[k]]
    /\ UNCHANGED notres

\* get_table raised: a request of the catalog scan failed
RsResolveFail ==
    /\ rs.pc = "resolve"
    /\ rs' = [rs EXCEPT !.pc = "done", !.result = "upstream"]
    /\ UNCHANGED <<notres, cursors>>

\* the data request was answered, or it raised
RsDataReturn(ok) ==
    /\ rs.pc = "data"
    /\ rs' = [rs EXCEPT !.pc = "done", !.result = IF ok THEN "ok" ELSE "upstream"]
    /\ UNCHANGED <<notres, cursors>>

\* the caller has taken the result (or the exception)
RsEnd ==
    /\ rs.pc = "done"
    /\ rs' = IdleRs
    /\ UNCHANGED <<notres, cursors>>

\* ResolveSpec: one worker; the operations of the repository that resolve a
\* logical name, each with the record metadata.get_table returns
ResolveNext ==
    \/ \E t \in Tenants, l \in PollLogicals, lp \in LimitPages, mr \in MaxRecords :
          rs.pc = "idle" /\ PollTableStart(1, t, l, FALSE, None, lp, mr)
    \/ ResolveTable(1, get_table(run[1].key[2]))
    \/ ResolveFail(1)
    \/ PollReturn(1)
    \/ \E l \in PollLogicals, tok \in BOOLEAN : ReadRowsStart(l, tok)
    \/ \E l \in PollLogicals : ExportTableStart(l)
    \/ \E ls \in ResetLists : ResetRouteStart(ls)
    \/ \E t \in Tenants : RsResolved(t)
    \/ RsResolveFail
    \/ \E ok \in BOOLEAN : RsDataReturn(ok)
    \/ RsEnd

ResolveSpec == Init /\ [][ResolveNext]_vars

\* ResetPollSpec: plain incremental poll_table runs (stored cursor, no
\* force_full, no override) and calls of the cursor reset route, one after
\* the other
ResetPollNext ==
    \/ \E t \in Tenants, l \in PollLogicals, lp \in LimitPages, mr \in MaxRecords :
          rs.pc = "idle" /\ PollTableStart(1, t, l, FALSE, None, lp, mr)
    \/ Step(1)
    \/ \E ls \in ResetLists : ResetRouteStart(ls)
    \/ \E t \in Tenants : RsResolved(t)
    \/ RsResolveFail
    \/ RsEnd

ResetPollSpec == Init /\ [][ResetPollNext]_vars

\* ---------------------------------------------------- multi-table poll
MaxBatchTables == 2
BatchLists == UNION {[1..n -> PollLogicals] : n \in 0..MaxBatchTables}

\* common/registry.py lines 32-35
get_tables(tenant_id) == registry[tenant_id]

\* main.py lines 163-177: the request's tables, else the tenant's registered
\* ones; HTTP 400 without any; total = 0 and the loop starts.
\* limit_pages is at least 1 (Query(2, ge=1)), max_records is None or >= 1.
PollGenericStart(tenant, tables, force_full, limit_pages, max_records) ==
    /\ batch.pc = "idle" /\ run[1].pc = "idle"
    /\ LET ts == IF tables # <<>> THEN tables ELSE get_tables(tenant)
       IN batch' = IF ts = <<>>
                   THEN [IdleBatch EXCEPT !.pc = "done", !.tenant = tenant,
                                          !.result = "HTTP400"]
                   ELSE [IdleBatch EXCEPT !.pc = "loop", !.tenant = tenant,
                                          !.tables = ts, !.idx = 1,
                                          !.force_full = force_full,
                                          !.limit_pages = limit_pages,
                                          !.max_records = max_records]
    /\ UNCHANGED <<notbatch, run>>

\* main.py lines 180-187: the loop awaits poll_table for the next table
BatchCall ==
    /\ batch.pc = "loop" /\ run[1].pc = "idle"
    /\ PollTableStart(1, batch.tenant, batch.tables[batch.idx], batch.force_full,
                      batch.since_iso, batch.limit_pages, batch.max_records)

\* the steps of the awaited poll_table, up to its return or its exception
BatchStep ==
    /\ batch.pc = "loop"
    /\ \/ \E meta \in MetaRecords(run[1].key[2]) : ResolveTable(1, meta)
       \/ ResolveFail(1)
       \/ FetchPage(1)
       \/ FetchPageFail(1)
       \/ RowPageLimit(1)
       \/ RowConsume(1)
       \/ AdvanceCursor(1)

\* a route that returned the count of the last table
BatchCollect_LastCount ==
    /\ batch.pc = "loop" /\ run[1].pc \in {"done", "failed"}
    /\ batch' = IF run[1].pc = "failed"
                THEN [batch EXCEPT !.pc = "done", !.result = run[1].error,
                                   !.ended = Append(@, run[1].error),
                                   !.logged = Append(@, run[1].appended)]
                ELSE [batch EXCEPT !.total = run[1].processed,
                                   !.ended = Append(@, "ok"),
                                   !.logged = Append(@, run[1].appended),
                                   !.idx = @ + 1,
                                   !.pc = IF batch.idx = Len(batch.tables)
                                          THEN "done" ELSE "loop",
                                   !.result = IF batch.idx = Len(batch.tables)
                                              THEN "ok" ELSE "none"]
    /\ run' = [run EXCEPT ![1] = IdleRun]
    /\ UNCHANGED notbatch

\* main.py line 180: total += <the count poll_table returned>, and the loop
\* goes on; the await is in no try block, so an exception of poll_table
\* leaves poll_generic at once. Line 189: after the last table the total.
BatchCollect ==
    /\ batch.pc = "loop" /\ run[1].pc \in {"done", "failed"}
    /\ batch' = IF run[1].pc = "failed"
                THEN [batch EXCEPT !.pc = "done", !.result = run[1].error,
                                   !.ended = Append(@, run[1].error),
                                   !.logged = Append(@, run[1].appended)]
                ELSE [batch EXCEPT !.total = @ + run[1].processed,
                                   !.ended = Append(@, "ok"),
                                   !.logged = Append(@, run[1].appended),
                                   !.idx = @ + 1,
                                   !.pc = IF batch.idx = Len(batch.tables)
                                          THEN "done" ELSE "loop",
                                   !.result = IF batch.idx = Len(batch.tables)
                                              THEN "ok" ELSE "none"]
    /\ run' = [run EXCEPT ![1] = IdleRun]
    /\ UNCHANGED notbatch

\* the response, or the exception, has left the route
BatchEnd ==
    /\ batch.pc = "done"
    /\ batch' = IdleBatch
    /\ UNCHANGED <<notbatch, run>>

BatchNext ==
    \/ \E t \in Tenants, ls \in BatchLists, ff \in BOOLEAN,
          lp \in LimitPages \ {0}, mr \in MaxRecords :
            PollGenericStart(t, ls, ff, lp, mr)
    \/ BatchCall
    \/ BatchStep
    \/ BatchCollect
    \/ BatchEnd

BatchSpec == Init /\ [][BatchNext]_vars

\* the query strings and the bodies of poll requests: no parameter, or one
\* field given
Queries ==
    {NoQuery,
     [NoQuery EXCEPT !.force_full = "true"],
     [NoQuery EXCEPT !.force_full = "false"],
     [NoQuery EXCEPT !.limit_pages = 1],
     [NoQuery EXCEPT !.max_records = 1],
     [NoQuery EXCEPT !.since_iso = Lit(1)]}

Bodies ==
    {NoBody,
     [NoBody EXCEPT !.force_full = TRUE],
     [NoBody EXCEPT !.limit_pages = 1],
     [NoBody EXCEPT !.max_records = 1],
     [NoBody EXCEPT !.since_iso = Lit(MaxTs)]}

\* main.py lines 150-153: the values FastAPI hands to the route for the query
\* parameters: Query(False), Query(2, ge=1, le=50), Query(None), Query(None)
q_force_full(query) == query.force_full = "true"
q_limit_pages(query) == IF query.limit_pages = 0 THEN DefaultLimitPages ELSE query.limit_pages

\* main.py lines 164-168: "q if q is not None else req.field"; q_force_full
\* and q_limit_pages are never None, q_max_records is None (0) when absent,
\* and since_iso is tested for truth
merge_force_full(query, body) == q_force_full(query)
merge_limit_pages(query, body) == q_limit_pages(query)
merge_max_records(query, body) ==
    IF query.max_records # 0 THEN query.max_records ELSE body.max_records
merge_since_iso(query, body) ==
    IF Truthy(query.since_iso) THEN query.since_iso ELSE body.since_iso

\* main.py lines 146-177: the route with its query string and its body
PollRoute(tenant, tables, query, body) ==
    /\ batch.pc = "idle" /\ run[1].pc = "idle"
    /\ LET ts == IF tables # <<>> THEN tables ELSE get_tables(tenant)
       IN batch' = IF ts = <<>>
                   THEN [IdleBatch EXCEPT !.pc = "done", !.tenant = tenant,
                                          !.query = query, !.body = body,
                                          !.result = "HTTP400"]
                   ELSE [IdleBatch EXCEPT !.pc = "loop", !.tenant = tenant,
                                          !.tables = ts, !.idx = 1,
                                          !.query = query, !.body = body,
                                          !.force_full = merge_force_full(query, body),
                                          !.limit_pages = merge_limit_pages(query, body),
                                          !.max_records = merge_max_records(query, body),
                                          !.since_iso = merge_since_iso(query, body)]
    /\ UNCHANGED <<notbatch, run>>

\* MergeSpec: poll requests for one table with a query string and a body
MergeNext ==
    \/ \E t \in Tenants, l \in PollLogicals, q \in Queries, b \in Bodies :
            PollRoute(t, <<l>>, q, b)
    \/ BatchCall
    \/ BatchStep
    \/ BatchCollect
    \/ BatchEnd

MergeSpec == Init /\ [][MergeNext]_vars

\* ------------------------------------------------------ catalog lookup
MaxPageEntries == 1    \* entity definitions on one page of the catalog

\* str.lower() on the names that occur
Lower(str) == IF str \in {"account", "Account", "ACCOUNT"} THEN "account" ELSE str

\* the entity definitions the server may list; "None": the attribute is null
CatalogEntries ==
    {[LogicalName |-> "account", EntitySetName |-> "accounts"],
     [LogicalName |-> "Account", EntitySetName |-> "accounts_2"],
     [LogicalName |-> "contact", EntitySetName |-> "contacts"],
     [LogicalName |-> "None", EntitySetName |-> "orphans"]}

CatalogPageSet == UNION {[1..n -> CatalogEntries] : n \in 0..MaxPageEntries}

\* the chain of pages of /EntityDefinitions; every page but the last carries
\* '@odata.nextLink'
CatalogChains == UNION {[1..n -> CatalogPageSet] : n \in 1..MaxCatalogPages}

\* the logical names a caller asks for
LookupNames == {"account", "ACCOUNT", "contact", "task"}

\* metadata.py line 79
Sentinel == [logical |-> "None", set |-> "None", pk |-> "None", pname |-> "None"]

\* metadata.py lines 31-43: the entries of one page that carry a logical name
\* (get_table passes no prefix), as the records find_tables collects
RECURSIVE page_tables(_)
page_tables(page) ==
    IF page = <<>> THEN <<>>
    ELSE LET e == Head(page)
         IN IF e.LogicalName = "None" THEN page_tables(Tail(page))
            ELSE <<[logical |-> e.LogicalName, set |-> e.EntitySetName,
                    pk |-> "id", pname |-> "name"]>> \o page_tables(Tail(page))

\* a lookup that compared the names as they are
find_entry_CaseSensitive(all_tables, logical) ==
    LET hits == {i \in 1..Len(all_tables) : all_tables[i].logical = logical}
    IN IF hits = {} THEN Sentinel
       ELSE all_tables[CHOOSE i \in hits : \A k \in hits : i <= k]

\* metadata.py lines 74-79: the first record whose name equals the asked one
\* in lower case, else the sentinel
find_entry(all_tables, logical) ==
    LET hits == {i \in 1..Len(all_tables) :
                    Lower(all_tables[i].logical) = Lower(logical)}
    IN IF hits = {} THEN Sentinel
       ELSE all_tables[CHOOSE i \in hits : \A k \in hits : i <= k]

\* metadata.py line 73 and lines 22-28: get_table awaits find_tables, which
\* requests the first page of the catalog
GetTableStart(logical, pages) ==
    /\ ct.pc = "idle"
    /\ ct' = [IdleCt EXCEPT !.pc = "scan", !.logical = logical, !.pages = pages,
                            !.requested = 1]
    /\ UNCHANGED notcat

\* metadata.py lines 28-52 and 74-79: a page arrives and its entries are
\* collected; with a continuation link the next page is requested, without
\* one find_tables returns and get_table searches the list
CatalogPageArrive ==
    /\ ct.pc = "scan"
    /\ LET out == ct.out \o page_tables(ct.pages[ct.requested])
       IN ct' = IF ct.requested < Len(ct.pages)
                THEN [ct EXCEPT !.out = out, !.requested = @ + 1]
                ELSE [ct EXCEPT !.out = out, !.pc = "done",
                                !.result = find_entry(out, ct.logical)]
    /\ UNCHANGED notcat

\* d365_get raised for a page of the catalog: get_table raises
CatalogPageFail ==
    /\ ct.pc = "scan"
    /\ ct' = [ct EXCEPT !.pc = "raised"]
    /\ UNCHANGED notcat

\* the caller has taken the record (or the exception)
GetTableEnd ==
    /\ ct.pc \in {"done", "raised"}
    /\ ct' = IdleCt
    /\ UNCHANGED notcat

CatNext ==
    \/ ct.pc = "idle" /\ \E l \in LookupNames, ps \in CatalogChains : GetTableStart(l, ps)
    \/ CatalogPageArrive
    \/ CatalogPageFail
    \/ GetTableEnd

CatInit == Init /\ remote = <<>>
CatSpec == CatInit /\ [][CatNext]_vars

\* ----------------------------------------------------------- SFTP upload
MaxDirDepth == 2   \* directories above the file in remote_path

\* remote_path by the number of directories above the file:
\* "/p.zip", "/inbound/p.zip", "/inbound/t1/p.zip"
RemoteDepths == 0..MaxDirDepth

\* files.py lines 121-133: without paramiko a RuntimeError and nothing is
\* opened; paramiko.Transport((host, port)) connects the socket, outside the
\* try block: when it raises there is no transport to close.
UploadStart(depth, installed, reachable) ==
    /\ sf.pc = "idle"
    /\ sf' = IF ~installed
             THEN [IdleSf EXCEPT !.pc = "done", !.depth = depth,
                                 !.result = "RuntimeError"]
             ELSE IF ~reachable
             THEN [IdleSf EXCEPT !.pc = "done", !.depth = depth,
                                 !.result = "SSHException"]
             ELSE [IdleSf EXCEPT !.pc = "connect", !.depth = depth,
                                 !.transport = "open"]
    /\ UNCHANGED <<notsftp, sftp_dirs, sftp_files>>

\* files.py lines 135-139: transport.connect authenticates, on success
\* SFTPClient.from_transport opens the session; "/" needs no directory.
SftpConnect(ok) ==
    /\ sf.pc = "connect"
    /\ sf' = IF ~ok
             THEN [sf EXCEPT !.pc = "finally", !.exc = "AuthenticationException"]
             ELSE [sf EXCEPT !.session = "open", !.part = 1,
                             !.pc = IF sf.depth = 0 THEN "write" ELSE "dirs"]
    /\ UNCHANGED <<notsftp, sftp_dirs, sftp_files>>

\* files.py lines 99-110: one component of remote_dir: stat; when it is
\* missing mkdir, whose failure is ignored; another error of stat leaves
\* the function.
SftpMakedirs(stat_error, mkdir_ok) ==
    /\ sf.pc = "dirs"
    /\ IF stat_error
       THEN /\ sf' = [sf EXCEPT !.pc = "finally", !.exc = "IOError"]
            /\ sftp_dirs' = sftp_dirs
       ELSE /\ sf' = [sf EXCEPT !.part = @ + 1,
                                !.pc = IF sf.part = sf.depth THEN "write" ELSE "dirs"]
            /\ sftp_dirs' = IF sf.part = sftp_dirs + 1 /\ mkdir_ok
                            THEN sf.part ELSE sftp_dirs
    /\ UNCHANGED <<notsftp, sftp_files>>

\* an upload that closed the transport on the way out of a full run only
SftpWrite_NoFinally(ok) ==
    /\ sf.pc = "write"
    /\ ok => sf.depth <= sftp_dirs
    /\ sf' = IF ok
             THEN [sf EXCEPT !.pc = "finally", !.session = "closed"]
             ELSE [sf EXCEPT !.pc = "done", !.exc = "IOError", !.result = "IOError"]
    /\ sftp_files' = IF ok THEN sftp_files \cup {sf.depth} ELSE sftp_files
    /\ UNCHANGED <<notsftp, sftp_dirs>>

\* files.py lines 142-145: the file is opened and written, which needs its
\* directory; then sftp.close().  A failure skips sftp.close().
SftpWrite(ok) ==
    /\ sf.pc = "write"
    /\ ok => sf.depth <= sftp_dirs
    /\ sf' = IF ok
             THEN [sf EXCEPT !.pc = "finally", !.session = "closed"]
             ELSE [sf EXCEPT !.pc = "finally", !.exc = "IOError"]
    /\ sftp_files' = IF ok THEN sftp_files \cup {sf.depth} ELSE sftp_files
    /\ UNCHANGED <<notsftp, sftp_dirs>>

\* files.py lines 146-149: finally transport.close(), which closes the
\* transport and every channel opened on it, the one of the SFTP session
\* among them; then the URL is returned or the exception goes on.
SftpFinally ==
    /\ sf.pc = "finally"
    /\ sf' = [sf EXCEPT !.pc = "done", !.transport = "closed",
                        !.session = IF sf.session = "open" THEN "closed"
                                    ELSE sf.session,
                        !.result = IF sf.exc = "none" THEN "url" ELSE sf.exc]
    /\ UNCHANGED <<notsftp, sftp_dirs, sftp_files>>

\* the caller has taken the URL (or the exception)
UploadEnd ==
    /\ sf.pc = "done"
    /\ sf' = IdleSf
    /\ UNCHANGED <<notsftp, sftp_dirs, sftp_files>>

SftpNext ==
    \/ \E d \in RemoteDepths, i \in BOOLEAN, r \in BOOLEAN : UploadStart(d, i, r)
    \/ \E ok \in BOOLEAN : SftpConnect(ok)
    \/ \E e \in BOOLEAN, m \in BOOLEAN : SftpMakedirs(e, m)
    \/ \E ok \in BOOLEAN : SftpWrite(ok)
    \/ SftpFinally
    \/ UploadEnd

SftpInit == Init /\ remote = <<>>
SftpSpec == SftpInit /\ [][SftpNext]_vars

\* ---------------------------------------------------- submission archive
MaxAnswerKeys == 2     \* distinct keys an answers document may carry

\* JSON values of an answers document, each with the text json.dumps writes
\* for it: a string that spells a number, that number, and null
JsonValues ==
    {[t |-> "str", v |-> "7"], [t |-> "int", v |-> "7"],
     [t |-> "null", v |-> "null"]}

\* the package the archives are saved for
ZipPackages == {"pk-1"}

AnswerKeyOrder == <<"event_id", "supplier_name", "contact_email", "proposal_title">>
AnswerKeys == {AnswerKeyOrder[i] : i \in 1..MaxAnswerKeys}

\* a dict as Python keeps it: the members in insertion order, keys distinct
Documents ==
    UNION {{d \in [1..n -> AnswerKeys \X JsonValues] :
               \A i, j \in 1..n : d[i][1] = d[j][1] => i = j} : n \in 0..MaxAnswerKeys}

\* the attachments of a submission: none, or one given as base64 text
AttachmentLists == {<<>>, <<[name |-> "a.pdf", kind |-> "content_base64"]>>}

\* a json.dumps that wrote every value bare
json_dumps_Unquoted(doc) ==
    [i \in 1..Len(doc) |-> [key |-> doc[i][1], quoted |-> FALSE, text |-> doc[i][2].v]]

\* files.py line 29: json.dumps(answers, ensure_ascii=False, indent=2): the
\* members in order, a string in quotes, a number and null bare
json_dumps(doc) ==
    [i \in 1..Len(doc) |->
        [key |-> doc[i][1], quoted |-> doc[i][2].t = "str", text |-> doc[i][2].v]]

\* json.loads: a quoted text is a string, null is None, digits are a number
json_loads(text) ==
    [i \in 1..Len(text) |->
        <<text[i].key,
          IF text[i].quoted THEN [t |-> "str", v |-> text[i].text]
          ELSE IF text[i].text = "null" THEN [t |-> "null", v |-> "null"]
          ELSE [t |-> "int", v |-> text[i].text]>>]

\* files.py lines 32-37: the entry of one attachment: its bytes, or the
\* decoded base64 text; one with a URL only is left out
AttachmentEntries(attachments) ==
    [i \in 1..Len(attachments) |->
        [name |-> "attachments/" \o attachments[i].name,
         data |-> <<[key |-> attachments[i].kind, quoted |-> FALSE,
                     text |-> attachments[i].name]>>]]

\* files.py lines 13-38: the archive as the entries written to it
build_submission_zip(answers, attachments) ==
    <<[name |-> "answers.json", data |-> json_dumps(answers)]>>
        \o AttachmentEntries(attachments)

\* zipfile.ZipFile.read(name): the data of the entry of that name
ReadEntry(archive, name) ==
    archive[CHOOSE i \in 1..Len(archive) : archive[i].name = name].data

\* a caller builds the archive of a submission
BuildSubmissionZip(answers, attachments) ==
    /\ zp.fn = "none"
    /\ zp' = [IdleZp EXCEPT !.fn = "build", !.answers = answers,
                            !.attachments = attachments,
                            !.archive = build_submission_zip(answers, attachments)]
    /\ UNCHANGED <<notzip, local_files>>

\* files.py lines 59-67: <base>/<tenant>/submission_<id>.zip is written with
\* the content, replacing what the path held, and "local:<path>" returned;
\* a failing mkdir or write raises and returns nothing
SaveZipLocal(tenant_id, package_id, written) ==
    /\ zp.fn = "build"
    /\ LET out == ArchivePath(tenant_id, package_id)
       IN IF written
          THEN /\ local_files' = {f \in local_files : f.path # out}
                                   \cup {[path |-> out, content |-> zp.archive]}
               /\ zp' = [zp EXCEPT !.fn = "saved",
                                   !.descriptor = [scheme |-> "local", path |-> out]]
          ELSE /\ local_files' = local_files
               /\ zp' = [zp EXCEPT !.fn = "raised"]
    /\ UNCHANGED notzip

\* the caller has taken the descriptor (or the exception)
ZipEnd ==
    /\ zp.fn \in {"saved", "raised"}
    /\ zp' = IdleZp
    /\ UNCHANGED <<notzip, local_files>>

ZipNext ==
    \/ zp.fn = "none" /\ \E a \in Documents, at \in AttachmentLists : BuildSubmissionZip(a, at)
    \/ \E t \in Tenants, k \in ZipPackages, w \in BOOLEAN : SaveZipLocal(t, k, w)
    \/ ZipEnd

ZipInit == Init /\ remote = <<>>
ZipSpec == ZipInit /\ [][ZipNext]_vars

\* ------------------------------------------------------- JSON GET helper
MaxTries == 8      \* GETs of one d365_get_json call that the model follows

\* http.py line 18
JsonRetryStatuses == {429, 503, 502, 504}

\* http.py line 27: "if attempt >= 5"
GiveUpAttempt == 5

\* what a GET meets: success, a not-found, throttling, a gateway error, or no
\* response (0: ConnectError, ReadTimeout)
JsonAnswers == {200, 404, 429, 503, 0}

\* http.py lines 7-13: the token is awaited for the headers; attempt = 0
GetJsonStart ==
    /\ hj.pc = "idle"
    /\ hj' = [IdleHj EXCEPT !.pc = "get"]
    /\ UNCHANGED notjson

\* http.py line 8: _get_token raised, outside the try block
GetJsonTokenFail ==
    /\ hj.pc = "idle"
    /\ hj' = [IdleHj EXCEPT !.pc = "raised", !.outcome = "TokenError"]
    /\ UNCHANGED notjson

\* http.py lines 16-25: the GET is answered below 400; raise_for_status
\* passes and the decoded body is returned
GetJsonOk(status) ==
    /\ hj.pc = "get" /\ Len(hj.history) < MaxTries
    /\ status # 0 /\ status < 400
    /\ hj' = [hj EXCEPT !.pc = "returned", !.outcome = "json",
                        !.history = Append(@, status)]
    /\ UNCHANGED notjson

\* http.py lines 18-23: a status of the retry tuple: the call sleeps, adds
\* one to attempt and goes round the loop
GetJsonRetryStatus(status) ==
    /\ hj.pc = "get" /\ Len(hj.history) < MaxTries
    /\ status \in JsonRetryStatuses
    /\ hj' = [hj EXCEPT !.attempt = @ + 1, !.history = Append(@, status)]
    /\ UNCHANGED notjson

\* http.py lines 24-30: raise_for_status raises HTTPStatusError for any other
\* status of 400 or more, the transport raises for no response; both are
\* httpx.HTTPError: re-raised when attempt >= 5, else sleep, attempt += 1 and
\* round the loop
GetJsonHTTPError(status) ==
    /\ hj.pc = "get" /\ Len(hj.history) < MaxTries
    /\ status = 0 \/ (status >= 400 /\ status \notin JsonRetryStatuses)
    /\ hj' = IF hj.attempt >= GiveUpAttempt
             THEN [hj EXCEPT !.pc = "raised", !.history = Append(@, status),
                             !.outcome = IF status = 0 THEN "TransportError"
                                         ELSE "HTTPStatusError"]
             ELSE [hj EXCEPT !.attempt = @ + 1, !.history = Append(@, status)]
    /\ UNCHANGED notjson

\* the caller has taken the result or the exception
GetJsonEnd ==
    /\ hj.pc \in {"returned", "raised"}
    /\ hj' = IdleHj
    /\ UNCHANGED notjson

\* JsonSpec: calls of d365_get_json against a server and a transport that
\* answer each GET in any of the ways
JsonNext ==
    \/ GetJsonStart
    \/ GetJsonTokenFail
    \/ \E status \in JsonAnswers : GetJsonOk(status)
    \/ \E status \in JsonAnswers : GetJsonRetryStatus(status)
    \/ \E status \in JsonAnswers : GetJsonHTTPError(status)
    \/ GetJsonEnd

JsonInit == Init /\ remote = <<>>
JsonSpec == JsonInit /\ [][JsonNext]_vars

\* ---------------------------------------------------------------- claims
\* the run has decided its cursor and sent its query
Started(r) == r.pc \in {"fetch", "row", "advance", "done"}

\* the instant order of two stored values, an unparsable one being nowhere
NotEarlier(a, b) == is_iso_z(a) /\ is_iso_z(b) /\ Parse(a) >= Parse(b)
Later(a, b) == is_iso_z(a) /\ is_iso_z(b) /\ Parse(a) > Parse(b)

\* C1: across non-overlapping polls the stored watermark of every key is
\* non-decreasing: a step that changes it either creates it or replaces it
\* with a strictly later instant.
C1_WatermarkNonDecreasing ==
    [][\A k \in Keys :
         cursors'[k] # cursors[k] =>
             (~Truthy(cursors[k]) \/ Later(cursors'[k], cursors[k]))]_vars

C3_EarlierOverrideNotPersisted ==
    \A p \in Procs :
        (/\ run[p].pc = "done"
         /\ ~run[p].force_full
         /\ is_iso_z(run[p].since_iso) /\ is_iso_z(run[p].stored)
         /\ Parse(run[p].since_iso) < Parse(run[p].stored))
        => NotEarlier(cursors[run[p].key], run[p].stored)

\* C4: a run started with force_full sends a query without $filter, whatever
\* is stored for its key and whatever since_iso it was given.
C4_ForceFullNoFilter ==
    \A p \in Procs : run[p].force_full => ~Truthy(run[p].filter)

C4_Witness ==
    \E p \in Procs :
        /\ run[p].force_full /\ run[p].pc = "row"
        /\ Truthy(run[p].stored) /\ is_iso_z(run[p].since_iso)

C7_ZeroRowsKeepsWatermark ==
    \A p \in Procs :
        (run[p].pc = "done" /\ run[p].processed = 0) =>
            cursors[run[p].key] = run[p].stored

\* the attempts of the call so far that met a retryable status
IsRetryResponse(h) == h.exc = "none" /\ h.status \in {429, 502, 503, 504}
IsOtherError(h) == h.exc = "none" /\ h.status >= 400 /\ ~IsRetryResponse(h)

\* C8: when every attempt up to the retry bound met 429/502/503/504, the call
\* ends by raising an error that carries the status; it does not return.
C8_ExhaustionRaises ==
    (/\ req.pc \in {"returned", "raised"}
     /\ Len(req.history) = RETRIES
     /\ \A i \in 1..RETRIES : IsRetryResponse(req.history[i])
     /\ \A i \in 1..RETRIES : ~FloatRaises(req.history[i].ra))
    => (req.pc = "raised" /\ req.outcome = "HTTPStatusError"
        /\ req.status = req.history[RETRIES].status)

\* C9: 429 with a numeric Retry-After on the first k attempts (k below the
\* retry bound) and then a status below 400: before each retry the call has
\* slept the server's value, not the computed backoff, and it returns the body
\* of the successful response.
ThrottledThenOk(h) ==
    /\ Len(h) >= 1
    /\ h[Len(h)].exc = "none" /\ h[Len(h)].status < 400
    /\ \A i \in 1..(Len(h) - 1) :
          /\ h[i].exc = "none" /\ h[i].status = 429
          /\ h[i].ra \in {"0", "2"}

C9_RetryAfterHonoured ==
    ThrottledThenOk(req.history) =>
        /\ req.pc = "returned" /\ req.outcome = "json"
        /\ req.body = Len(req.history)
        /\ Len(req.sleeps) = Len(req.history) - 1
        /\ \A i \in 1..Len(req.sleeps) :
              req.sleeps[i] = RetryAfterTenths(req.history[i].ra)

C9_Witness ==
    /\ ThrottledThenOk(req.history)
    /\ Len(req.history) = RETRIES
    /\ \A i \in 1..(RETRIES - 1) : req.history[i].ra = "2"
    /\ req.sleeps = <<20, 20>>

\* C10: a status of 400 or more outside the retry set ends the call at that
\* attempt: HTTPStatusError with that status is raised, no further attempt is
\* issued and nothing is slept after the response; as the first response it
\* leaves exactly one attempt and no sleep.
C10_OtherStatusFailsAtOnce ==
    \A n \in 1..Len(req.history) :
        IsOtherError(req.history[n]) =>
            /\ req.pc = "raised" /\ req.outcome = "HTTPStatusError"
            /\ req.status = req.history[n].status
            /\ Len(req.history) = n
            /\ Len(req.sleeps) = n - 1
            /\ (n = 1 => req.sleeps = <<>>)

C10_Witness ==
    /\ Len(req.history) = 1
    /\ IsOtherError(req.history[1])
    /\ req.pc = "raised"

\* the attempts of the call that ended in the transport, without a response
IsTransportFailure(h) == h.exc # "none"
ReqEnded == req.pc \in {"returned", "raised"}

\* C11: whatever the server and the transport do, one call issues at most
\* RETRIES attempts and then ends; a call whose every attempt ended in a
\* transport error ends by raising the error of its last attempt.
C11_BoundedAttempts ==
    /\ [](req.attempt <= RETRIES /\ Len(req.history) <= RETRIES)
    /\ []((/\ ReqEnded
           /\ Len(req.history) >= 1
           /\ \A i \in 1..Len(req.history) : IsTransportFailure(req.history[i]))
          => (/\ req.pc = "raised"
              /\ req.outcome = req.history[Len(req.history)].exc))
    /\ (req.pc = "token" ~> ReqEnded)

C11_Witness ==
    /\ req.pc = "raised"
    /\ Len(req.history) = RETRIES
    /\ \A i \in 1..RETRIES : req.history[i].exc = "ReadTimeout"
    /\ Len(req.sleeps) = RETRIES - 1

\* the rows of the paginated query and its non-empty server pages
PgRows == QueryRows(pg.filter)
PgPages == {n \in 1..MaxRows : PageOf(PgRows, n) # <<>>}
IsFirstOfPage(row) == \E n \in PgPages : PageOf(PgRows, n)[1] = row

\* C12: paginate_table yields the rows of the result in server order, all N of
\* them once it has ended, and the flag of a yielded element is true exactly
\* when the row is the first of its server page, so that P elements carry it.
C12_YieldsEveryRowFlagsPages ==
    pg.kind = "paginate" =>
        /\ Len(pg.yielded) <= Len(PgRows)
        /\ \A k \in 1..Len(pg.yielded) :
              /\ pg.yielded[k][1] = PgRows[k]
              /\ pg.yielded[k][2] = IsFirstOfPage(PgRows[k])
        /\ pg.pc = "done" =>
              /\ Len(pg.yielded) = Len(PgRows)
              /\ Cardinality({k \in 1..Len(pg.yielded) : pg.yielded[k][2]})
                    = Cardinality(PgPages)

C12_Witness ==
    /\ pg.kind = "paginate" /\ pg.pc = "done"
    /\ Len(pg.yielded) = MaxRows
    /\ Cardinality(PgPages) >= 2

\* C13: a call whose URL is absolute goes out without query parameters, also
\* when its caller passed some; the continuation requests of the paginator
\* and of the catalog scan are such calls and are passed none.
C13_NoParamsOnAbsolute ==
    /\ \A i \in 1..Len(http) : http[i].url_abs => http[i].params = {}
    /\ pg.kind \in {"paginate", "find_tables"} =>
          \A i \in 2..Len(http) :
              http[i].url_abs /\ http[i].passed = {} /\ http[i].params = {}

C13_Witness ==
    /\ Len(http) = 1
    /\ http[1].url_abs /\ http[1].passed = {"$orderby", "$filter"}
    /\ http[1].by = "_request" /\ pg.kind = "_request"

\* C14: every HTTP call paginate_table makes carries the bearer token: the
\* first-page request and each continuation request.
C14_BearerOnEveryCall ==
    pg.kind = "paginate" => \A i \in 1..Len(http) : http[i].bearer

\* a caller goes from idle into get_access_token in this step
EntersGetAccessToken(c) ==
    tk[c].pc = "idle" /\ tk'[c].pc # "idle" /\ tk'[c].fn = "get_access_token"

\* C15: get_access_token returns the cached credential only when its expiry
\* is more than 60 seconds after the current time; otherwise it asks for a
\* new one; and the cache entry of the scope changes only by being replaced
\* with the entry of a newly issued token.
C15_CacheSlack ==
    [][/\ \A c \in Callers :
            EntersGetAccessToken(c) =>
                IF token_cache[TheScope].token # 0
                   /\ token_cache[TheScope].expires_at - 60 > now
                THEN tk'[c].pc = "returned" /\ tk'[c].ret = token_cache[TheScope]
                     /\ idp'.posts = idp.posts
                ELSE tk'[c].pc = "post" /\ idp'.posts = idp.posts + 1
       /\ token_cache'[TheScope] # token_cache[TheScope] =>
            /\ token_cache'[TheScope].token # token_cache[TheScope].token
            /\ token_cache'[TheScope].token = idp'.issued[TheScope].token
            /\ \E c \in Callers :
                  /\ tk[c].pc = "post" /\ tk'[c].pc = "returned"
                  /\ tk'[c].ret = token_cache'[TheScope]]_vars

C15_Witness ==
    \E c \in Callers :
        /\ tk[c].pc = "returned" /\ tk[c].fn = "get_access_token"
        /\ ~tk[c].cached /\ tk[c].ret.token = 2
        /\ token_cache[TheScope] = tk[c].ret
        /\ tk[c].now > 0

\* C16: on the executor's token path a call made while a credential issued
\* earlier for the scope is more than 60 seconds from expiry sends nothing to
\* the identity provider.
C16_ExecutorTokenCached ==
    \A c \in Callers :
        (tk[c].fn = "get_dataverse_token" /\ tk[c].held) =>
            (tk[c].pc = "returned" /\ tk[c].cached)

\* the keys of a tenant that hold a watermark in a state of the store
Held(store, tenant) == {k \in Keys : k[1] = tenant /\ Truthy(store[k])}

\* C17: after reset(tenant) with no keys, get returns none for every resource
\* of the tenant and the count returned is the number of watermarks there
\* were; after reset(tenant, keys) the listed keys that were present are gone,
\* every other watermark is as before, and the count is the number removed.
C17_ResetClears ==
    op.name = "reset" =>
        LET wanted == IF op.tables = {}
                      THEN Held(op.before, op.tenant)
                      ELSE {k \in Held(op.before, op.tenant) : k[2] \in op.tables}
        IN /\ \A k \in wanted : get_cursor(cursors, k[1], k[2]) = None
           /\ \A k \in Keys \ wanted : cursors[k] = op.before[k]
           /\ op.ret_count = Cardinality(wanted)

\* C18: list(tenant) is exactly the set of (resource key, watermark) pairs
\* that get(tenant, resource key) returns.
C18_ListAgreesWithGet ==
    \A t \in Tenants :
        list_cursors(cursor_files, t)
            = {<<r, get_cursor(cursors, t, r)>> :
                   r \in {x \in Resources : Truthy(get_cursor(cursors, t, x))}}

\* what the tenant's registry holds after the last register_tables call
RegistryAfter == IF rg.fn = "registry" THEN registry[rg.tenant] ELSE registered[rg.tenant]

\* C19: register_tables leaves the tenant's registry equal to the sorted,
\* duplicate-free union of what it held before and the names given, returns
\* that list, and changes nothing when the names were all registered already.
C19_RegisterIsUnionMerge ==
    rg.fn # "none" =>
        LET want == sorted(Range(rg.before) \cup Range(rg.tables))
        IN /\ RegistryAfter = want
           /\ rg.ret = want
           /\ Range(rg.tables) \subseteq Range(rg.before) => RegistryAfter = rg.before

\* the routes a submission may name, and the results that are validation errors
KnownRoutes == {"local", "dryrun", "email", "sftp"}
ValidationResults == {"errors", "validation_failed", "HTTP400"}

\* C20: a submission with a route outside the known ones ends in a validation
\* error, having written no archive and invoked no delivery backend.
C20_UnknownRouteFailsBeforeIO ==
    (sub.fn # "none" /\ sub.route \notin KnownRoutes) =>
        /\ sub.result \in ValidationResults
        /\ ~sub.wrote
        /\ sub.backends = {}

\* the results that tell the caller the table is not known
NotFoundResults == {"HTTP404", "HTTP400", "NotFound"}

\* C21: an operation to which get_table has returned the sentinel ends with a
\* not-found error, having sent no data request and written no row and no
\* cursor.
C21_SentinelIsNotFound ==
    /\ (\E i \in 1..Len(rs.metas) : ~HasSet(rs.metas[i])) =>
          /\ rs.pc = "done" /\ rs.result \in NotFoundResults
          /\ rs.requests = <<>> /\ rs.cleared = {}
    /\ (run[1].kind = "table" /\ run[1].key[2] \notin DOMAIN Catalog
        /\ run[1].pc \notin {"idle", "resolve"}) =>
          /\ run[1].pc = "failed" /\ run[1].error \in NotFoundResults \cup {"upstream"}
          /\ run[1].requested = 0 /\ run[1].appended = 0
          /\ run[1].key \notin DOMAIN cursors

\* C22: a poll_table run on a logical name of the catalog fails only by an
\* upstream failure: resolution succeeds with the record get_table returns.
C22_CatalogTableResolves ==
    (run[1].kind = "table" /\ run[1].key[2] \in DOMAIN Catalog
     /\ run[1].pc = "failed") => run[1].error = "upstream"

\* C23: when poll_generic has ended for a list of tables, every table of the
\* list was polled and has its own outcome: a failure of one table did not
\* keep the tables after it from being polled.
C23_FailureAbortsOneTable ==
    (batch.pc = "done" /\ batch.tables # <<>>) =>
        Len(batch.ended) = Len(batch.tables)

\* the rows the run of worker 1 has consumed: the first `processed` rows of
\* its query, as indices into remote
ConsumedRows == {QueryRows(run[1].filter)[i] : i \in 1..run[1].processed}

\* the instant of a row for the watermark: modifiedon, else createdon
ModTime(i) == IF remote[i].mod = 0 THEN remote[i].created ELSE remote[i].mod

\* the rows of the query that the run has not consumed
UnconsumedRows ==
    {QueryRows(run[1].filter)[i] :
        i \in (run[1].processed + 1)..Len(QueryRows(run[1].filter))}

C25_BoundsEndRunCleanly ==
    /\ [](/\ run[1].limit_pages # 0 =>
                /\ run[1].processed <= run[1].limit_pages * PageSize
                /\ run[1].appended <= run[1].limit_pages * PageSize
          /\ run[1].max_records # 0 =>
                /\ run[1].processed <= run[1].max_records
                /\ run[1].appended <= run[1].max_records
          /\ run[1].pc = "failed" =>
                /\ ~(run[1].max_records # 0 /\ run[1].processed >= run[1].max_records)
                /\ ~(run[1].limit_pages # 0 /\ run[1].pages > run[1].limit_pages))
    /\ [][/\ (run[1].pc = "row" /\ run'[1].pc \notin {"row", "fetch", "failed"})
                => run'[1].pc = "advance"
          /\ run[1].pc = "advance" =>
                /\ run'[1].pc = "done"
                /\ run'[1].processed = run[1].processed]_vars

\* a run that the page limit ended after a full first page, and that returned
C25_Witness ==
    /\ run[1].pc = "done" /\ run[1].limit_pages = 1
    /\ run[1].pages > run[1].limit_pages
    /\ run[1].processed = PageSize
    /\ Len(QueryRows(run[1].filter)) > PageSize

\* the greatest instant among the consumed rows, as a literal; without rows
\* the value the run started from (ingest.py line 179: latest = effective)
RunningMax ==
    IF ConsumedRows = {} THEN run[1].effective
    ELSE Lit(CHOOSE m \in {ModTime(i) : i \in ConsumedRows} :
                \A i \in ConsumedRows : ModTime(i) <= m)

NumPages == IF PgRows = <<>> THEN 1 ELSE Cardinality(PgPages)

\* C27: paginate_table ends: every started query reaches its end (or raises),
\* the requests sent so far are one per page asked for, a query that ended has
\* sent as many requests as the server has pages, and after a page without a
\* continuation link only that page's rows are yielded and no request is sent.
C27_PaginatorEnds ==
    /\ [](pg.kind = "paginate" =>
            /\ Len(http) = pg.requested
            /\ pg.requested <= NumPages
            /\ pg.pc = "done" => Len(http) = NumPages)
    /\ [][(pg.kind = "paginate" /\ pg.pc = "yield" /\ pg.next_link = 0) =>
            /\ http' = http
            /\ pg'.pc \in {"yield", "done"}]_vars
    /\ (pg.kind = "paginate" /\ pg.pc \in {"page", "yield"})
          ~> (pg.pc \in {"done", "raised"})

\* a query of two pages that ended after two requests
C27_Witness ==
    /\ pg.kind = "paginate" /\ pg.pc = "done"
    /\ NumPages = 2 /\ Len(http) = 2
    /\ Len(pg.yielded) = Len(PgRows)

\* C28: when the request of page i fails, the consumer holds the rows of the
\* pages before i, all of them and in order; the failure comes where the
\* first row of page i was asked for, and it takes back nothing: not the rows
\* yielded, and not the rows poll_table had logged.
C28_FailureKeepsEarlierPages ==
    /\ []((pg.kind = "paginate" /\ pg.pc = "raised") =>
            /\ Len(pg.yielded) = (pg.requested - 1) * PageSize
            /\ \A k \in 1..Len(pg.yielded) : pg.yielded[k][1] = PgRows[k])
    /\ []((run[1].kind = "table" /\ run[1].pc = "failed"
           /\ run[1].error = "upstream" /\ run[1].requested >= 1) =>
            /\ run[1].processed = (run[1].requested - 1) * PageSize
            /\ ConsumedRows \subseteq rawlog[run[1].key])
    /\ [][/\ (pg.kind = "paginate" /\ pg'.pc = "raised") =>
               /\ pg.pc = "page" /\ pg.buf = <<>>
               /\ pg'.yielded = pg.yielded
          /\ (run[1].kind = "table" /\ run'[1].pc = "failed"
              /\ run'[1].error = "upstream") =>
               /\ run[1].buf = <<>>
               /\ run'[1].processed = run[1].processed
          /\ \A k \in Keys : rawlog[k] \subseteq rawlog'[k]]_vars

\* the request of the second page failed after the first page was yielded
C28_Witness ==
    /\ pg.kind = "paginate" /\ pg.pc = "raised" /\ pg.requested = 2
    /\ Len(pg.yielded) = PageSize

\* where the catalog lists an entry of the asked name, case ignored
CatalogMatches ==
    {pi \in (1..Len(ct.pages)) \X (1..MaxPageEntries) :
        /\ pi[2] <= Len(ct.pages[pi[1]])
        /\ ct.pages[pi[1]][pi[2]].LogicalName # "None"
        /\ Lower(ct.pages[pi[1]][pi[2]].LogicalName) = Lower(ct.logical)}

\* the first of them in the order of the pages
FirstMatch ==
    CHOOSE pi \in CatalogMatches :
        \A qi \in CatalogMatches :
            pi[1] < qi[1] \/ (pi[1] = qi[1] /\ pi[2] <= qi[2])

\* C29: get_table returns only after every page of the catalog was read; it
\* returns the sentinel exactly when no page lists an entry of the asked name
\* (case ignored), and else the record of the first such entry.
C29_GetTableFindsEntry ==
    ct.pc = "done" =>
        /\ ct.requested = Len(ct.pages)
        /\ (ct.result = Sentinel) <=> (CatalogMatches = {})
        /\ CatalogMatches # {} =>
              LET e == ct.pages[FirstMatch[1]][FirstMatch[2]]
              IN /\ ct.result.logical = e.LogicalName
                 /\ ct.result.set = e.EntitySetName
                 /\ Lower(ct.result.logical) = Lower(ct.logical)

\* the asked name differs in case from the entry found, which the second
\* page lists
C29_Witness ==
    /\ ct.pc = "done" /\ ct.logical = "ACCOUNT"
    /\ Len(ct.pages) = 2
    /\ CatalogMatches # {} /\ FirstMatch[1] = 2
    /\ ct.result.set = "accounts_2"

\* C30: when upload_zip_via_sftp has returned or raised, the transport it
\* opened is closed and so is the SFTP session, if one was opened; nothing
\* is left open between calls.
C30_UploadReleasesConnection ==
    sf.pc \in {"done", "idle"} =>
        /\ sf.transport # "open"
        /\ sf.session # "open"

\* the write failed after the session was opened: sftp.close() was skipped
C30_Witness ==
    /\ sf.pc = "done" /\ sf.result = "IOError" /\ sf.part > sf.depth
    /\ sf.transport = "closed" /\ sf.session = "closed"

\* the backends that performed I/O for the last submission
Performed == sub.backends \cup (IF sub.wrote THEN {"local"} ELSE {})

\* the backend a route names
SelectedBackend(route) ==
    IF route = "email" THEN "smtp" ELSE IF route = "sftp" THEN "sftp" ELSE "local"

\* C31: for an accepted submission with one of the known routes, the backend
\* the route names performed the delivery and no other backend did any I/O.
C31_ExactlyOneBackend ==
    (sub.fn # "none" /\ sub.result = "ok" /\ sub.route \in KnownRoutes) =>
        Performed = {SelectedBackend(sub.route)}

\* a document as the mapping it is: Python compares dicts without their order
Members(doc) == {doc[i] : i \in 1..Len(doc)}

SoloCount(r) ==
    LET n0 == Len(QueryRows(r.filter))
        n1 == IF r.limit_pages # 0 THEN Min(n0, r.limit_pages * PageSize) ELSE n0
    IN IF r.max_records # 0 THEN Min(n1, r.max_records) ELSE n1

\* the watermark its key holds after such a run
SoloWatermark(r) ==
    LET times == {ModTime(QueryRows(r.filter)[i]) : i \in 1..SoloCount(r)}
                    \cup (IF Truthy(r.effective) THEN {Parse(r.effective)} ELSE {})
    IN IF times = {} THEN r.stored
       ELSE Lit(CHOOSE m \in times : \A x \in times : x <= m)

C35_SetCursorChangesOnlyItsEntry ==
    op.name = "set" =>
        \A k \in Keys :
            k \notin {Key(op.tenant, r) : r \in op.tables} => cursors[k] = op.before[k]

\* the instants of the rows the run of worker 1 has consumed, as literals
ConsumedInstants == {Lit(ModTime(i)) : i \in ConsumedRows}

\* C36: the watermark a poll writes is its effective starting cursor or the
\* instant (modifiedon, else createdon) of a row the run consumed, for
\* poll_table a row in the raw-row log; the step that meets the first row of
\* the page beyond limit_pages ends the loop and changes neither the log, nor
\* the count, nor the running maximum.
C36_WatermarkFromConsumedRows ==
    /\ [][(run[1].pc = "advance" /\ cursors' # cursors) =>
            /\ cursors'[run[1].key] \in {run[1].effective} \cup ConsumedInstants
            /\ \A k \in Keys \ {run[1].key} : cursors'[k] = cursors[k]
            /\ run[1].kind = "table" => ConsumedRows \subseteq rawlog[run[1].key]]_vars
    /\ [][(run[1].pc = "row" /\ PageLimitHit(run[1])) =>
            /\ run'[1].pc = "advance"
            /\ rawlog' = rawlog
            /\ run'[1].processed = run[1].processed
            /\ run'[1].appended = run[1].appended
            /\ run'[1].latest = run[1].latest]_vars

\* a run that stopped at the first row of the second page, a row later than
\* every row it consumed, and wrote the instant of a row of the first page
C36_Witness ==
    /\ run[1].pc = "done" /\ run[1].limit_pages = 1 /\ run[1].max_records = 0
    /\ run[1].pages > run[1].limit_pages
    /\ UnconsumedRows # {}
    /\ \A j \in UnconsumedRows : \A i \in ConsumedRows : ModTime(j) > ModTime(i)
    /\ cursors[run[1].key] \in ConsumedInstants
    /\ cursors[run[1].key] # run[1].stored

\* the sum of a list of counts
RECURSIVE SumCounts(_)
SumCounts(counts) == IF counts = <<>> THEN 0 ELSE Head(counts) + SumCounts(Tail(counts))

Polling == batch.pc = "loop" /\ run[1].pc \in {"fetch", "row", "advance", "done"}

OnlyRetryAnswers ==
    \A i \in 1..Len(hj.history) : hj.history[i] \in JsonRetryStatuses

\* C39: one d365_get_json call issues at most six GETs; a call that met
\* 429, 502, 503 or 504 on each of six GETs has raised.
C39_GivesUpAfterSixTries ==
    /\ Len(hj.history) <= GiveUpAttempt + 1
    /\ (OnlyRetryAnswers /\ Len(hj.history) = GiveUpAttempt + 1) => hj.pc = "raised"
====
